---- MODULE Spec2Model ----
(***************************************************************************)
(* A model of b2-js: the request executor (B2.request), the streaming      *)
(* upload engine (FileUploadStream, uploadPart) and the single-part        *)
(* upload path (Bucket.uploadSinglePart, SinglePartUpload).                *)
(*                                                                         *)
(* The specifications share the variables:                                 *)
(*   SpecReq    : one call of B2.request against a server that may answer  *)
(*                any status and code on each attempt;                     *)
(*   SpecAuth   : concurrent calls of B2.request on one client;            *)
(*   SpecPool   : concurrent calls of Bucket.uploadSinglePart on a bucket; *)
(*   Spec       : one upload, through Bucket.upload or through a write     *)
(*                stream obtained from File.createWriteStream;             *)
(*   SpecSingle : one call of Bucket.uploadSinglePart;                     *)
(*   SpecSize   : the B2.partSize setter and re-authorization;             *)
(*   SpecList   : File.stat and the iteration of Bucket.files;             *)
(*   SpecHash   : one AppendHashStream.                                    *)
(***************************************************************************)
EXTENDS Integers, Sequences, FiniteSets, TLC

\* ------------------------------------------------------------------------
\* Bounds of the model
\* ------------------------------------------------------------------------
MaxRetriesOpt == 2        \* options.maxRetries ranges over 0..MaxRetriesOpt, or is absent
MaxTransportErrors == 2   \* transport failures the network produces during one call
MinPart == 2              \* absoluteMinimumPartSize returned by b2_authorize_account
MaxPartSize == 3          \* largest recommendedPartSize / user-set part size
MaxLen == 5               \* longest input of an upload, in bytes
MaxFaults == 2            \* answers other than success the server gives during one upload
NumRequests == 2          \* concurrent calls of B2.request / of Bucket.uploadSinglePart
MaxDirectCalls == 2       \* calls of upload refused to a caller on a SinglePartUpload of its own
MaxExpiredLeases == 1     \* upload tokens the server declares expired during concurrent uploads
MaxAuthorizations == 4    \* re-authorizations of one client
MaxDigestCalls == 2       \* calls of AppendHashStream.digest() after the end of the source
MaxFiles == 3             \* file names 1..MaxFiles, in lexicographic order
MaxBatches == 3           \* batches one iteration of Bucket.files may request
DefaultFileCount == 2     \* files b2_list_file_names answers when maxFileCount is absent

\* ------------------------------------------------------------------------
\* Program constants
\* ------------------------------------------------------------------------
DefaultMaxRetries == 5
DefaultBackoff == 150

HashTrailerLength == 40

Undefined == -1
Null == -2

VARIABLES
  auth,          \* B2.auth: the AuthorizeAccountSuccessResponse
  rqPc,          \* position of the B2.request call
  rqOptions,     \* options of the current attempt (defaults merged)
  rqRetries,     \* the retries argument of the current attempt
  rqSent,        \* HTTP requests sent by this call
  rqAuthCalls,   \* calls of B2.authorize made by this call
  rqSeen,        \* what the server answered so far, by kind
  rqLast,        \* the last response received
  rqToken,       \* Authorization header of the last request sent
  rqResult,      \* "none", "response" or the name of the error thrown
  rqReturned     \* the Response object the call returned

varsReq == <<rqPc, rqOptions, rqRetries, rqSent, rqAuthCalls, rqSeen, rqLast, rqToken, rqResult, rqReturned>>

VARIABLES
  userSetPartSize,    \* B2._userSetPartSize
  entry,              \* "upload": Bucket.upload(fileName, data, options);
                      \* "stream": a FileUploadStream of the file, written by the caller
                      \* "singleBuffer", "singleStream": Bucket.uploadSinglePart
                      \* (fileName, data, options) with a Buffer, a readable stream
  input,              \* the bytes to upload
  written,            \* how many bytes of input were handed to the stream
  options,            \* the caller's FileUploadOptions
  fileData,           \* File._fileData
  ws,                 \* the FileUploadStream and the part upload it awaits
  singlePartUploads,  \* Bucket._singlePartUploads
  inUse,              \* the SinglePartUpload objects whose _inUse is set
  sp,                 \* the single-part upload in progress
  srv,                \* the server: identifiers handed out, faults injected
  hist                \* what was sent to the server so far

varsUp == <<userSetPartSize, entry, input, written, options, fileData, ws,
            singlePartUploads, inUse, sp, srv, hist>>

VARIABLES
  cc,            \* concurrent calls of B2.request on one client
  pl,            \* concurrent single-part uploads on one bucket
  ls,            \* the files of a bucket, a File that is statted, an iteration
                 \* of Bucket.files
  hs             \* an AppendHashStream and the source piped into it

varsConc == <<cc, pl, ls, hs>>

vars == <<auth, varsReq, varsUp, varsConc>>

\* ------------------------------------------------------------------------
\* The server's answers
\* ------------------------------------------------------------------------
Statuses == {200, 400, 401, 403, 405, 408, 416, 429, 500, 503}
Codes == {"bad_request", "unauthorized", "download_cap_exceeded",
          "bad_auth_token", "expired_auth_token", "other"}
Payloads == {"p1", "p2"}
\* A 200 answer carries a payload; an error answer carries a code.
Responses ==
  {r \in [status : Statuses, code : Codes, payload : Payloads] :
     IF r.status = 200 THEN r.code = "other" ELSE r.payload = "p1"}
NoResponse == [status |-> 0, code |-> "other", payload |-> "p1"]

Errors == {"BadRequest", "UnauthorizedRequest", "DownloadCapExceeded",
           "ExpiredCredentials", "Forbidden", "RangeNotSatisfiable",
           "InternalServerError", "RequestTimeout", "ServiceUnavailable",
           "TooManyRequests", "UnknownServerError"}

\* ------------------------------------------------------------------------
\* B2.request: classification of a response
\* ------------------------------------------------------------------------
\* const options = { maxRetries: 5, backoff: 150, ..._options }
MergeOptions(o) ==
  [maxRetries |-> IF o.maxRetries = Undefined THEN DefaultMaxRetries ELSE o.maxRetries,
   backoff    |-> IF o.backoff = Undefined THEN DefaultBackoff ELSE o.backoff]

Case503OffByOne(retries, maxRetries) ==
  IF retries > maxRetries THEN "ServiceUnavailable" ELSE "retry"

\* case 503: if (retries >= maxRetries) throw ServiceUnavailable; retry
Case503(retries, maxRetries) ==
  IF retries >= maxRetries THEN "ServiceUnavailable" ELSE "retry"

\* the second `case 500:` label; entered only by falling through from 408
Case500Second(retries, maxRetries) ==
  IF retries >= maxRetries THEN "InternalServerError" ELSE Case503(retries, maxRetries)

\* case 408: if (retries >= maxRetries) throw RequestTimeout; falls through
Case408(retries, maxRetries) ==
  IF retries >= maxRetries THEN "RequestTimeout" ELSE Case500Second(retries, maxRetries)

SwitchStatusWithout416(status, retries, maxRetries) ==
  CASE status = 400 -> "BadRequest"
    [] status = 403 -> "Forbidden"
    [] status = 500 -> "InternalServerError"
    [] status = 408 -> Case408(retries, maxRetries)
    [] status = 503 -> Case503(retries, maxRetries)
    [] OTHER -> "UnknownServerError"

\* switch (data.status): the first matching label is taken, so 500 always
\* reaches the first `case 500:` which throws.
SwitchStatus(status, retries, maxRetries) ==
  CASE status = 400 -> "BadRequest"
    [] status = 403 -> "Forbidden"
    [] status = 416 -> "RangeNotSatisfiable"
    [] status = 500 -> "InternalServerError"
    [] status = 408 -> Case408(retries, maxRetries)
    [] status = 503 -> Case503(retries, maxRetries)
    [] OTHER -> "UnknownServerError"

CaseExpiredTokenOffByOne(retries, maxRetries) ==
  IF retries <= maxRetries THEN "authorize" ELSE "ExpiredCredentials"

\* case "bad_auth_token": case "expired_auth_token":
\*   if (retries < maxRetries) { await this.authorize(); retry } else throw
CaseExpiredToken(retries, maxRetries) ==
  IF retries < maxRetries THEN "authorize" ELSE "ExpiredCredentials"

\* switch (data.code)
SwitchCode(status, code, retries, maxRetries) ==
  CASE code = "bad_request" -> "BadRequest"
    [] code = "unauthorized" -> "UnauthorizedRequest"
    [] code = "download_cap_exceeded" -> "DownloadCapExceeded"
    [] code \in {"bad_auth_token", "expired_auth_token"} ->
         CaseExpiredToken(retries, maxRetries)
    [] OTHER -> SwitchStatus(status, retries, maxRetries)

\* What B2.request does with a response: "return", "authorize", "retry" or
\* the name of the error it throws.
Classify(res, retries, maxRetries) ==
  IF res.status = 200 THEN "return"
  ELSE SwitchCode(res.status, res.code, retries, maxRetries)

\* The kind under which an answer is counted in rqSeen.
Kind(res) ==
  CASE res.status = 200 -> "ok"
    [] res.code \in {"bad_auth_token", "expired_auth_token"} -> "expired"
    [] res.code = "other" /\ res.status = 503 -> "s503"
    [] res.code = "other" /\ res.status = 408 -> "s408"
    [] res.code = "other" /\ res.status = 500 -> "s500"
    [] res.code = "other" /\ res.status = 429 -> "s429"
    [] OTHER -> "terminal"

Kinds == {"ok", "expired", "s503", "s408", "s500", "s429", "terminal", "transport"}

Count(seen, k) == [seen EXCEPT ![k] = @ + 1]

\* ------------------------------------------------------------------------
\* B2.partSize and FileUploadStream.partSize
\* ------------------------------------------------------------------------
Max(a, b) == IF a >= b THEN a ELSE b

B2PartSizeUnclamped(a, userSet) ==
  IF userSet # Undefined
  THEN userSet
  ELSE a.recommendedPartSize

\* get partSize(): the user-set size clamped below, or the recommended size
B2PartSize(a, userSet) ==
  IF userSet # Undefined
  THEN Max(userSet, a.absoluteMinimumPartSize)
  ELSE a.recommendedPartSize

\* get partSize() of the stream: the first return statement is the one taken
StreamPartSize(a, userSet) == a.absoluteMinimumPartSize

\* `x || d`: 0 and undefined are both falsy
OrDefault(x, d) == IF x = Undefined \/ x = 0 THEN d ELSE x

\* ------------------------------------------------------------------------
\* Digests
\* ------------------------------------------------------------------------
\* createHash("sha1"), hash.update(chunk), hash.digest("hex").  The digest is
\* kept symbolic: the SHA-1 of a byte sequence, injective on the inputs.
NewHash == <<>>
HashUpdate(h, chunk) == h \o chunk
HashDigest(h) == [alg |-> "sha1", of |-> h]
Sha1(bytes) == HashDigest(HashUpdate(NewHash, bytes))

NoDigest == [alg |-> "undefined", of |-> <<>>]
HexDigitsAtEnd == [alg |-> "hex_digits_at_end", of |-> <<>>]

\* ------------------------------------------------------------------------
\* PendingPart
\* ------------------------------------------------------------------------
NewPendingPart == [chunks |-> <<>>, hash |-> NewHash, bytes |-> 0, digest |-> NoDigest]

\* _write(chunk): hash.update, bytes += byteLength, chunks.push
PartWrite(part, chunk) ==
  [part EXCEPT !.chunks = @ \o chunk,
               !.hash = HashUpdate(@, chunk),
               !.bytes = @ + Len(chunk)]

\* _final(): this.digest = this.hash.digest("hex")
PartFinal(part) == [part EXCEPT !.digest = HashDigest(part.hash)]

\* ------------------------------------------------------------------------
\* File
\* ------------------------------------------------------------------------
NoFileData == [fileName |-> "undefined", fileId |-> "undefined", action |-> "undefined"]

\* The identities a File can be constructed with: a name, an id, or the
\* record of a file that is already stored.
FileIdentities ==
  { [fileName |-> "f", fileId |-> "undefined", action |-> "undefined"],
    [fileName |-> "undefined", fileId |-> "id_stored", action |-> "undefined"],
    [fileName |-> "f", fileId |-> "id_stored", action |-> "upload"] }

\* The record b2_get_file_info answers for a stored file
StoredFileData(fileId) == [fileName |-> "f", fileId |-> fileId, action |-> "upload"]

\* The record b2_start_large_file answers
StartedFileData(fileName) == [fileName |-> fileName, fileId |-> "id_large", action |-> "start"]

\* The record b2_finish_large_file answers
FinishedFileData(fileId) == [fileName |-> "f", fileId |-> fileId, action |-> "upload"]

\* The record the single-part POST answers
UploadedFileData(fileName) == [fileName |-> fileName, fileId |-> "id_single", action |-> "upload"]

\* ------------------------------------------------------------------------
\* FileUploadStream
\* ------------------------------------------------------------------------
NoOptions ==
  [maxRetries |-> Undefined, backoff |-> Undefined, sha1 |-> NoDigest,
   contentLength |-> Undefined]

NoPartUpload ==
  [partNumber |-> 0, buffer |-> <<>>, sha1 |-> NoDigest, uploadUrl |-> Undefined,
   retryN |-> 0, maxRetries |-> 0, backoffRate |-> 0, rest |-> <<>>, final |-> FALSE]

\* new FileUploadStream(file, options)
NewStream(opts, pc) ==
  [pc |-> pc,
   options |-> opts,
   pendingPart |-> NewPendingPart,
   isMultipart |-> FALSE,
   uploadDigestPromises |-> <<>>,
   uploadUrls |-> <<>>,
   up |-> NoPartUpload,
   error |-> "none"]

Pending == [state |-> "pending", value |-> NoDigest]
Fulfilled(v) == [state |-> "fulfilled", value |-> v]
Rejected == [state |-> "rejected", value |-> NoDigest]

\* The exported uploadPart begins: a missing upload URL is requested first
UploadPartEntry(uploadUrl) == IF uploadUrl = Undefined THEN "getUrl" ELSE "post"

\* File._startMultipartUpload begins: nothing to do for a record whose action
\* is "upload"; else the file name is needed (stat when absent), then
\* b2_start_large_file is called.
StartMultipartEntry(fd, uploadUrl) ==
  IF fd.action = "upload" THEN UploadPartEntry(uploadUrl)
  ELSE IF fd.fileName = "undefined" THEN "stat"
  ELSE "startLarge"

PartNumberOffByOne(w) == Len(w.uploadDigestPromises)

\* const partNumber = this._uploadDigestPromises.length + 1
PartNumber(w) == Len(w.uploadDigestPromises) + 1

\* FileUploadStream.uploadPart(part), up to its first await
StreamUploadPart(w, fd, part, rest, final) ==
  LET uploadUrl == IF w.uploadUrls = <<>> THEN Undefined
                   ELSE w.uploadUrls[Len(w.uploadUrls)]
  IN [w EXCEPT
        !.uploadUrls = IF @ = <<>> THEN @ ELSE SubSeq(@, 1, Len(@) - 1),
        !.up = [partNumber |-> PartNumber(w),
                buffer |-> part.chunks,
                sha1 |-> part.digest,
                uploadUrl |-> uploadUrl,
                retryN |-> 0,
                maxRetries |-> OrDefault(w.options.maxRetries, DefaultMaxRetries),
                backoffRate |-> OrDefault(w.options.backoff, DefaultBackoff),
                rest |-> rest,
                final |-> final],
        !.isMultipart = TRUE,
        !.uploadDigestPromises = Append(@, Pending),
        !.pc = IF w.isMultipart THEN UploadPartEntry(uploadUrl)
               ELSE StartMultipartEntry(fd, uploadUrl)]

ProcessSealsWhenFull(w, fd, partSize, chunk) ==
  LET spaceInPart == partSize - w.pendingPart.bytes IN
  IF Len(chunk) >= spaceInPart
  THEN LET part == PartFinal(PartWrite(w.pendingPart, SubSeq(chunk, 1, spaceInPart)))
       IN StreamUploadPart([w EXCEPT !.pendingPart = NewPendingPart], fd, part,
                           SubSeq(chunk, spaceInPart + 1, Len(chunk)), FALSE)
  ELSE [w EXCEPT !.pendingPart = PartWrite(@, chunk), !.pc = "open"]

\* __process(chunk, callback), up to its first await
Process(w, fd, partSize, chunk) ==
  LET spaceInPart == partSize - w.pendingPart.bytes IN
  IF Len(chunk) > spaceInPart
  THEN LET part == PartFinal(PartWrite(w.pendingPart, SubSeq(chunk, 1, spaceInPart)))
       IN StreamUploadPart([w EXCEPT !.pendingPart = NewPendingPart], fd, part,
                           SubSeq(chunk, spaceInPart + 1, Len(chunk)), FALSE)
  ELSE [w EXCEPT !.pendingPart = PartWrite(@, chunk), !.pc = "open"]

StreamFailsStaysOpen(w, err) ==
  [w EXCEPT !.pc = "open", !.error = err,
            !.uploadDigestPromises =
               IF w.up.partNumber \in 1..Len(@)
               THEN [@ EXCEPT ![w.up.partNumber] = IF @.state = "pending" THEN Rejected ELSE @]
               ELSE @]

\* callback(err) of _write or of _final: the stream is errored
StreamFails(w, err) ==
  [w EXCEPT !.pc = "errored", !.error = err,
            !.uploadDigestPromises =
               IF w.up.partNumber \in 1..Len(@)
               THEN [@ EXCEPT ![w.up.partNumber] = IF @.state = "pending" THEN Rejected ELSE @]
               ELSE @]

UseSinglePartAlways(w) == TRUE

\* _finishUpload: this._uploadDigestPromises.length === 0 ? single : multipart
UseSinglePart(w) == Len(w.uploadDigestPromises) = 0

\* ------------------------------------------------------------------------
\* uploadPart (api-operations/upload-part): classification of the answer
\* ------------------------------------------------------------------------
PartCase503SameUrl(retryN, maxRetries) ==
  IF retryN > maxRetries THEN "ServiceUnavailable" ELSE "timer"

\* case 503: if (retryN > maxRetries) throw ServiceUnavailable; new URL, retry
PartCase503(retryN, maxRetries) ==
  IF retryN > maxRetries THEN "ServiceUnavailable" ELSE "newUrl"

\* case 401: if (retryN > maxRetries) throw UnauthorizedRequest; falls through
PartCase401(retryN, maxRetries) ==
  IF retryN > maxRetries THEN "UnauthorizedRequest" ELSE PartCase503(retryN, maxRetries)

PartCase408NewUrl(retryN, maxRetries) ==
  IF retryN > maxRetries THEN "RequestTimeout" ELSE "newUrl"

\* case 408: if (retryN > maxRetries) throw RequestTimeout; setTimeout, same URL
PartCase408(retryN, maxRetries) ==
  IF retryN > maxRetries THEN "RequestTimeout" ELSE "timer"

PartSwitch(status, retryN, maxRetries) ==
  CASE status = 200 -> "return"
    [] status = 401 -> PartCase401(retryN, maxRetries)
    [] status = 503 -> PartCase503(retryN, maxRetries)
    [] status = 408 -> PartCase408(retryN, maxRetries)
    [] OTHER -> "UnknownServerError"

\* ------------------------------------------------------------------------
\* SinglePartUpload._upload: headers and classification of the answer
\* ------------------------------------------------------------------------
\* The data of an upload: a Buffer of `length` bytes, or a readable stream
\* that will deliver `length` bytes
NoData == [kind |-> "undefined", length |-> 0]
BufferOf(bytes) == [kind |-> "buffer", length |-> Len(bytes)]
StreamOf(bytes) == [kind |-> "stream", length |-> Len(bytes)]

NoSingleUpload ==
  [lease |-> Undefined, retries |-> 0, declared |-> 0, contentLength |-> 0,
   sha1 |-> NoDigest, maxRetries |-> Undefined, backoff |-> Undefined,
   data |-> NoData]

\* if (typeof sha1 === "undefined") { sha1 = "hex_digits_at_end"; contentLength += 40 }
HeaderSha1(sha1) == IF sha1 = NoDigest THEN HexDigitsAtEnd ELSE sha1
HeaderContentLength(sha1, contentLength) ==
  IF sha1 = NoDigest THEN contentLength + HashTrailerLength ELSE contentLength

SingleCase429OffByOne(retries, maxRetries) ==
  IF retries > maxRetries THEN "TooManyRequests" ELSE "timer"

\* case 429: if (retries >= maxRetries) throw TooManyRequests; setTimeout
SingleCase429(retries, maxRetries) ==
  IF retries >= maxRetries THEN "TooManyRequests" ELSE "timer"

\* case 408: if (retries >= maxRetries) throw RequestTimeout; falls through
SingleCase408(retries, maxRetries) ==
  IF retries >= maxRetries THEN "RequestTimeout" ELSE SingleCase429(retries, maxRetries)

SingleSwitch(res, retries, maxRetries) ==
  CASE res.status = 200 -> "return"
    [] res.status = 400 -> "BadRequest"
    [] res.status = 401 ->
         IF res.code \in {"bad_auth_token", "expired_auth_token"}
         THEN "false" ELSE "UnauthorizedRequest"
    [] res.status = 403 -> "UsageCapExceeded"
    [] res.status = 408 -> SingleCase408(retries, maxRetries)
    [] res.status = 429 -> SingleCase429(retries, maxRetries)
    [] res.status = 405 -> "Internal"
    [] OTHER -> "UnknownServerError"

\* let { contentLength } = options; if undefined: contentLength = data.length
KnownContentLength(o) ==
  IF o.contentLength = Undefined THEN o.data.length ELSE o.contentLength

\* The options uploadSinglePart was called with, and the SinglePartUpload it
\* runs on (none while the upload URL is being requested).
SingleFrame(o, lease) ==
  [lease |-> lease, retries |-> 0,
   declared |-> o.contentLength, contentLength |-> KnownContentLength(o),
   sha1 |-> o.sha1, maxRetries |-> o.maxRetries, backoff |-> o.backoff,
   data |-> o.data]

\* The options a recursive call of uploadSinglePart receives: the caller's
SingleOptions(frame) ==
  [contentLength |-> frame.declared, sha1 |-> frame.sha1,
   maxRetries |-> frame.maxRetries, backoff |-> frame.backoff,
   data |-> frame.data]

\* let { maxRetries = 5, backoff = 150 } = options
SingleMaxRetries(frame) ==
  IF frame.maxRetries = Undefined THEN DefaultMaxRetries ELSE frame.maxRetries

SingleUploadUnchecked(pool, used, lease, o) ==
  [pc |-> "spPost", error |-> "none", pool |-> pool, inUse |-> used \cup {lease},
   sp |-> SingleFrame(o, lease)]

\* SinglePartUpload.upload, up to the fetch of _upload
SingleUpload(pool, used, lease, o) ==
  IF lease \in used
  THEN [pc |-> "errored", error |-> "BadUsage", pool |-> pool, inUse |-> used,
        sp |-> SingleFrame(o, lease)]
  ELSE IF o.contentLength = Undefined /\ o.data.kind # "buffer"
  THEN \* _inUse = true; throw BadUsage; finally { _inUse = false }
       [pc |-> "errored", error |-> "BadUsage", pool |-> pool, inUse |-> used,
        sp |-> SingleFrame(o, lease)]
  ELSE [pc |-> "spPost", error |-> "none", pool |-> pool, inUse |-> used \cup {lease},
        sp |-> SingleFrame(o, lease)]

\* let upload = this._singlePartUploads.pop(); else SinglePartUpload.requestNew
GetSinglePartUpload(pool, used, o) ==
  IF pool # <<>>
  THEN SingleUpload(SubSeq(pool, 1, Len(pool) - 1), used, pool[Len(pool)], o)
  ELSE [pc |-> "spGetLease", error |-> "none", pool |-> pool, inUse |-> used,
        sp |-> SingleFrame(o, Undefined)]

ReturnToPoolAlways(pool, used, lease) == Append(pool, lease)

\* finally { if (!singlePartUpload.inUse) this._singlePartUploads.push(singlePartUpload) }
ReturnToPool(pool, used, lease) ==
  IF lease \notin used THEN Append(pool, lease) ELSE pool

\* ------------------------------------------------------------------------
\* Concurrent calls of B2.request: the headers of a request
\* ------------------------------------------------------------------------
Requests == 1..NumRequests

\* { ...h1, ...h2 }: a key of h2 overrides the same key of h1
MergeHeaders(h1, h2) ==
  [k \in (DOMAIN h1) \cup (DOMAIN h2) |-> IF k \in DOMAIN h2 THEN h2[k] ELSE h1[k]]

RequestHeadersCallerWins(requestHeaders, token) ==
  MergeHeaders([Authorization |-> token, UserAgent |-> 1], requestHeaders)

\* headers: { ...request.headers, Authorization: this.auth.authorizationToken,
\*            "User-Agent": B2.userAgent }
RequestHeaders(requestHeaders, token) ==
  MergeHeaders(requestHeaders, [Authorization |-> token, UserAgent |-> 1])

\* request.headers as a caller of callApi may give them
CallerHeaders ==
  {[ContentType |-> 1], [ContentType |-> 1, Authorization |-> 0]}

\* The calls before any of them was made
NewConc(requestHeaders, maxRetries) ==
  [pc |-> [i \in Requests |-> "idle"],
   retries |-> [i \in Requests |-> 0],
   header |-> [i \in Requests |-> 0],
   tokenAtSend |-> [i \in Requests |-> 0],
   replacedAtSend |-> [i \in Requests |-> FALSE],
   requestHeaders |-> requestHeaders,
   maxRetries |-> maxRetries,
   authCalls |-> 0,
   expiredTokens |-> {},
   replaced |-> {},
   issued |-> 1,
   faults |-> 0]

\* fetch(url, {...request, headers}): request i leaves with the headers built
\* from the token that is in this.auth now
ConcSend(c, i, token) ==
  LET h == RequestHeaders(c.requestHeaders, token).Authorization IN
  [c EXCEPT !.pc[i] = "inflight",
            !.header[i] = h,
            !.tokenAtSend[i] = token,
            !.replacedAtSend[i] = h \in c.replaced]

\* ------------------------------------------------------------------------
\* Concurrent calls of Bucket.uploadSinglePart: the bucket and its callers
\* ------------------------------------------------------------------------
\* The bucket with the free set `free`, before any call; `direct` is a caller
\* that obtained a SinglePartUpload of its own with requestNew (the lease
\* after those of the free set) and calls upload on it itself.
NewPool(free, maxRetries) ==
  [free |-> free,
   options |-> [contentLength |-> 1, sha1 |-> NoDigest,
                maxRetries |-> maxRetries, backoff |-> Undefined,
                data |-> BufferOf(<<1>>)],
   inUse |-> {},
   pc |-> [i \in Requests |-> "idle"],
   lease |-> [i \in Requests |-> Undefined],
   direct |-> [lease |-> Len(free) + 1, inflight |-> 0, badUsage |-> 0],
   nextLease |-> Len(free) + 2,
   expired |-> 0]

\* ------------------------------------------------------------------------
\* File.stat and Bucket.files: the bucket's files and b2_list_file_names
\* ------------------------------------------------------------------------
FileNames == 1..MaxFiles
IdOf(fileName) == 100 + fileName

\* The record B2 keeps of the file with this name
FileRecord(fileName) == [fileName |-> fileName, fileId |-> IdOf(fileName)]

\* What a File can be constructed from: a name, an id, both, or neither
NoIdentity == [fileName |-> Undefined, fileId |-> Undefined]
Identities ==
  [fileName : {Undefined} \cup FileNames, fileId : {Undefined}]
    \cup {[fileName |-> Undefined, fileId |-> IdOf(n)] : n \in FileNames}
    \cup {FileRecord(n) : n \in FileNames}

NoListOptions == [batchSize |-> Undefined, startFileName |-> Undefined]
ListOptions ==
  [batchSize : {Undefined} \cup (1..DefaultFileCount),
   startFileName : {Undefined} \cup FileNames]

RECURSIVE SortedNames(_)
SortedNames(S) ==
  IF S = {} THEN <<>>
  ELSE LET m == CHOOSE x \in S : \A y \in S : x <= y
       IN <<m>> \o SortedNames(S \ {m})

\* The answer of b2_list_file_names to the body _getFileDataBatch sends:
\* the files from startFileName on in the order of their names, at most
\* maxFileCount of them, and the name the next batch starts at, or null.
\* JSON.stringify leaves an undefined startFileName or maxFileCount out.
GetFileDataBatch(files, o) ==
  LET from == {n \in files : o.startFileName = Undefined \/ n >= o.startFileName}
      names == SortedNames(from)
      count == IF o.batchSize = Undefined THEN DefaultFileCount ELSE o.batchSize
      k == IF Len(names) < count THEN Len(names) ELSE count
  IN [files |-> [i \in 1..k |-> FileRecord(names[i])],
      nextFileName |-> IF Len(names) > count THEN names[count + 1] ELSE Null]

StatByNameUnchecked(fileName, batch) ==
  IF batch.files = <<>>
  THEN [pc |-> "thrown", error |-> "FileNotFound"]
  ELSE [pc |-> "returned", fileData |-> batch.files[1]]

\* const {files: [fileData]} = batch; if (typeof fileData === "undefined" ||
\* fileData.fileName !== fileName) throw FileNotFound
StatByName(fileName, batch) ==
  IF batch.files = <<>> \/ batch.files[1].fileName # fileName
  THEN [pc |-> "thrown", error |-> "FileNotFound"]
  ELSE [pc |-> "returned", fileData |-> batch.files[1]]

\* listFileData({batchSize, startFileName, ...options}): the options that
\* are passed on to _getFileDataBatch are the rest, without the two
RestOptions(o) == NoListOptions

\* A bucket holding `files`, a File constructed from `identity`, and an
\* iteration of Bucket.files(opts) that has not started
NewListing(files, identity, opts) ==
  [files |-> files,
   identity |-> identity,
   fileData |-> identity,
   statPc |-> "idle",
   statError |-> "none",
   statRequests |-> <<>>,
   opts |-> opts,
   iterPc |-> "idle",
   startFileName |-> opts.startFileName,
   batches |-> <<>>,
   yielded |-> <<>>]

\* ------------------------------------------------------------------------
\* AppendHashStream
\* ------------------------------------------------------------------------
\* The bytes a stream emits: the bytes of a chunk it passes on, and the
\* characters of a hex digest pushed as utf-8
EmitChunk(chunk) == [i \in 1..Len(chunk) |-> [data |-> chunk[i]]]
EmitHex(digest) == [i \in 1..HashTrailerLength |-> [hex |-> digest, at |-> i]]

\* new AppendHashStream("sha1"), with the bytes its source will deliver
NewAppendHash(bytes) ==
  [input |-> bytes,
   read |-> 0,
   chunks |-> <<>>,
   hash |-> NewHash,
   digest |-> NoDigest,
   emitted |-> <<>>,
   pc |-> "open",
   returned |-> <<>>]

AppendHashTransformUnhashed(h, chunk) ==
  [h EXCEPT !.read = @ + Len(chunk),
            !.chunks = Append(@, chunk),
            !.emitted = @ \o EmitChunk(chunk)]

\* _transform(chunk): this.hash.update(chunk); callback(null, chunk)
AppendHashTransform(h, chunk) ==
  [h EXCEPT !.read = @ + Len(chunk),
            !.chunks = Append(@, chunk),
            !.hash = HashUpdate(@, chunk),
            !.emitted = @ \o EmitChunk(chunk)]

\* digest(): the memoized digest, or this._digest = this.hash.digest("hex")
AppendHashDigest(h) ==
  IF h.digest # NoDigest THEN h ELSE [h EXCEPT !.digest = HashDigest(h.hash)]

\* _flush(): this.push(this.digest(), "utf-8")
AppendHashFlush(h) ==
  LET h2 == AppendHashDigest(h)
  IN [h2 EXCEPT !.emitted = @ \o EmitHex(h2.digest), !.pc = "flushed"]

\* ------------------------------------------------------------------------
\* Initial states
\* ------------------------------------------------------------------------
NoHistory ==
  [start |-> 0, startOk |-> 0, getPartUrl |-> 0, partPost |-> 0, finish |-> 0,
   getUploadUrl |-> 0, singlePost |-> 0, fileInfo |-> 0,
   sealed |-> <<>>, posted |-> {}, accepted |-> {}, partUrlFileIds |-> {},
   finishBody |-> <<>>, singleHeaders |-> <<>>, singleAnswers |-> <<>>,
   singleAfterPart |-> FALSE, singlePath |-> FALSE,
   singleExpired |-> {}, droppedUrls |-> {},
   partTimeout |-> [url |-> Undefined, getPartUrl |-> 0, partPost |-> 0],
   partRejected |-> [status |-> 0, partPost |-> 0],
   acceptedUrls |-> <<>>]

NewServer == [nextUrl |-> 1, nextLease |-> 1, faults |-> 0]

Bytes(n) == [i \in 1..n |-> i]

InitAuth ==
  \E rec \in MinPart..MaxPartSize :
    auth = [authorizationToken |-> 1,
            absoluteMinimumPartSize |-> MinPart,
            recommendedPartSize |-> rec]

IdleReq ==
  /\ rqPc = "idle"
  /\ rqOptions = MergeOptions([maxRetries |-> Undefined, backoff |-> Undefined])
  /\ rqRetries = 0
  /\ rqSent = 0
  /\ rqAuthCalls = 0
  /\ rqSeen = [k \in Kinds |-> 0]
  /\ rqLast = NoResponse
  /\ rqToken = 0
  /\ rqResult = "none"
  /\ rqReturned = NoResponse

\* No concurrent call is modelled
IdleConc ==
  /\ cc = NewConc([ContentType |-> 1], DefaultMaxRetries)
  /\ pl = NewPool(<<>>, Undefined)
  /\ ls = NewListing({}, NoIdentity, NoListOptions)
  /\ hs = NewAppendHash(<<>>)

IdleUp ==
  /\ userSetPartSize = Undefined
  /\ entry = "none"
  /\ input = <<>>
  /\ written = 0
  /\ options = NoOptions
  /\ fileData = NoFileData
  /\ ws = NewStream(NoOptions, "idle")
  /\ singlePartUploads = <<>>
  /\ inUse = {}
  /\ sp = NoSingleUpload
  /\ srv = NewServer
  /\ hist = NoHistory

InitReq == InitAuth /\ IdleReq /\ IdleUp /\ IdleConc

Init ==
  /\ InitAuth
  /\ IdleReq
  /\ IdleConc
  /\ userSetPartSize \in {Undefined} \cup (1..MaxPartSize)
  /\ entry \in {"upload", "stream"}
  /\ input \in {Bytes(n) : n \in 0..MaxLen}
  /\ written = 0
  /\ options \in [maxRetries : {Undefined} \cup (0..MaxRetriesOpt),
                  backoff : {Undefined},
                  sha1 : {NoDigest, Sha1(input)},
                  contentLength : {Undefined}]
  /\ entry = "stream" => options.sha1 = NoDigest
  /\ fileData \in FileIdentities
  /\ entry = "upload" => fileData = [fileName |-> "f", fileId |-> "undefined", action |-> "undefined"]
  /\ ws = IF entry = "stream" THEN NewStream(options, "open") ELSE NewStream(NoOptions, "idle")
  /\ singlePartUploads \in {<<>>, <<0>>}
  /\ inUse = {}
  /\ sp = NoSingleUpload
  /\ srv = NewServer
  /\ hist = NoHistory

\* ------------------------------------------------------------------------
\* B2.request: the call
\* ------------------------------------------------------------------------
RequestOptionSets ==
  [maxRetries : {Undefined} \cup (0..MaxRetriesOpt), backoff : {Undefined, 100}]

\* callApi(operationName, request, opts): this.request(url, request, opts)
CallApi(opts) ==
  /\ rqPc = "idle"
  /\ rqPc' = "fetch"
  /\ rqOptions' = MergeOptions(opts)
  /\ rqRetries' = 0
  /\ UNCHANGED <<auth, rqSent, rqAuthCalls, rqSeen, rqLast, rqToken, rqResult, rqReturned>>

\* res = await fetch(url, {... Authorization: this.auth.authorizationToken})
\* followed by the classification of the response.
FetchResponds(res) ==
  /\ rqPc = "fetch"
  /\ rqSent' = rqSent + 1
  /\ rqToken' = auth.authorizationToken
  /\ rqLast' = res
  /\ rqSeen' = Count(rqSeen, Kind(res))
  /\ LET c == Classify(res, rqRetries, rqOptions.maxRetries) IN
       CASE c = "return"    -> rqPc' = "returned" /\ rqResult' = "response" /\ rqReturned' = res
         [] c = "authorize" -> rqPc' = "authorize" /\ UNCHANGED <<rqResult, rqReturned>>
         [] c = "retry"     -> rqPc' = "timer" /\ UNCHANGED <<rqResult, rqReturned>>
         [] OTHER           -> rqPc' = "thrown" /\ rqResult' = c /\ UNCHANGED rqReturned
  /\ UNCHANGED <<auth, rqOptions, rqRetries, rqAuthCalls>>

\* catch { ... setTimeout(() => this.request(..., retries + 1)) }: the fetch
\* itself failed; the retry is scheduled without looking at maxRetries.
FetchThrows ==
  /\ rqPc = "fetch"
  /\ rqSeen["transport"] < MaxTransportErrors
  /\ rqSent' = rqSent + 1
  /\ rqToken' = auth.authorizationToken
  /\ rqSeen' = Count(rqSeen, "transport")
  /\ rqPc' = "timer"
  /\ UNCHANGED <<auth, rqOptions, rqRetries, rqAuthCalls, rqLast, rqResult, rqReturned>>

\* setTimeout fires: this.request(url, request, {...options, backoff: backoff * 2}, retries + 1)
TimerFires ==
  /\ rqPc = "timer"
  /\ rqPc' = "fetch"
  /\ rqOptions' = [rqOptions EXCEPT !.backoff = @ * 2]
  /\ rqRetries' = rqRetries + 1
  /\ UNCHANGED <<auth, rqSent, rqAuthCalls, rqSeen, rqLast, rqToken, rqResult, rqReturned>>

AuthorizeReturnsResetsRetries ==
  /\ rqPc = "authorize"
  /\ rqAuthCalls' = rqAuthCalls + 1
  /\ auth' = [auth EXCEPT !.authorizationToken = @ + 1]
  /\ rqPc' = "fetch"
  /\ rqRetries' = 0
  /\ UNCHANGED <<rqOptions, rqSent, rqSeen, rqLast, rqToken, rqResult, rqReturned>>

\* await this.authorize(); return this.request(url, request, options, retries + 1)
AuthorizeReturns ==
  /\ rqPc = "authorize"
  /\ rqAuthCalls' = rqAuthCalls + 1
  /\ auth' = [auth EXCEPT !.authorizationToken = @ + 1]
  /\ rqPc' = "fetch"
  /\ rqRetries' = rqRetries + 1
  /\ UNCHANGED <<rqOptions, rqSent, rqSeen, rqLast, rqToken, rqResult, rqReturned>>

\* authorize() throws (bad credentials, ...): the error leaves B2.request
AuthorizeThrows ==
  /\ rqPc = "authorize"
  /\ rqAuthCalls' = rqAuthCalls + 1
  /\ rqPc' = "thrown"
  /\ rqResult' = "AuthorizeError"
  /\ UNCHANGED <<auth, rqOptions, rqRetries, rqSent, rqSeen, rqLast, rqToken, rqReturned>>

NextReq ==
  /\ \/ \E opts \in RequestOptionSets : CallApi(opts)
     \/ \E res \in Responses : FetchResponds(res)
     \/ FetchThrows
     \/ TimerFires
     \/ AuthorizeReturns
     \/ AuthorizeThrows
  /\ UNCHANGED <<varsUp, varsConc>>

SpecReq == InitReq /\ [][NextReq]_vars

\* ------------------------------------------------------------------------
\* Concurrent calls of B2.request on one client
\* ------------------------------------------------------------------------
\* The answers the server gives to concurrent calls
ConcResponses ==
  {r \in Responses :
     /\ r.payload = "p1"
     /\ \/ r.status = 200
        \/ r.status = 401 /\ r.code = "expired_auth_token"
        \/ r.status = 503 /\ r.code = "other"
        \/ r.status = 400 /\ r.code = "bad_request"}

InitAuthConc ==
  /\ InitAuth
  /\ IdleReq
  /\ IdleUp
  /\ cc \in {NewConc(h, DefaultMaxRetries) : h \in CallerHeaders}
  /\ pl = NewPool(<<>>, Undefined)
  /\ ls = NewListing({}, NoIdentity, NoListOptions)
  /\ hs = NewAppendHash(<<>>)

\* callApi -> this.request(url, request, options): the first fetch of call i
ConcCall(i) ==
  /\ cc.pc[i] = "idle"
  /\ cc' = ConcSend(cc, i, auth.authorizationToken)
  /\ UNCHANGED auth

\* The answer to the request of call i arrives and is classified; for an
\* expired token within the budget, this.authorize() is called at once.
ConcResponds(i, res) ==
  /\ cc.pc[i] = "inflight"
  /\ res.status # 200 => cc.faults < MaxFaults
  /\ LET c == Classify(res, cc.retries[i], cc.maxRetries)
         seen == IF res.code \in {"bad_auth_token", "expired_auth_token"}
                 THEN cc.expiredTokens \cup {cc.header[i]} ELSE cc.expiredTokens
         c1 == [cc EXCEPT !.faults = IF res.status = 200 THEN @ ELSE @ + 1,
                          !.expiredTokens = seen]
     IN cc' = CASE c = "return"    -> [c1 EXCEPT !.pc[i] = "returned"]
                [] c = "authorize" -> [c1 EXCEPT !.pc[i] = "authorize",
                                                 !.authCalls = @ + 1]
                [] c = "retry"     -> [c1 EXCEPT !.pc[i] = "timer"]
                [] OTHER           -> [c1 EXCEPT !.pc[i] = "thrown"]
  /\ UNCHANGED auth

\* this.auth = await authorize(credentials); then, in the same turn,
\* this.request(url, request, options, retries + 1) sends the retry
ConcAuthorizeReturns(i) ==
  /\ cc.pc[i] = "authorize"
  /\ LET token == cc.issued + 1
         c1 == [cc EXCEPT !.issued = token,
                          !.replaced = @ \cup {auth.authorizationToken},
                          !.retries[i] = @ + 1]
     IN /\ auth' = [auth EXCEPT !.authorizationToken = token]
        /\ cc' = ConcSend(c1, i, token)

\* setTimeout fires after a 503: this.request(..., retries + 1)
ConcTimerFires(i) ==
  /\ cc.pc[i] = "timer"
  /\ cc' = ConcSend([cc EXCEPT !.retries[i] = @ + 1], i, auth.authorizationToken)
  /\ UNCHANGED auth

NextAuth ==
  /\ \/ \E i \in Requests : ConcCall(i)
     \/ \E i \in Requests : \E res \in ConcResponses : ConcResponds(i, res)
     \/ \E i \in Requests : ConcAuthorizeReturns(i)
     \/ \E i \in Requests : ConcTimerFires(i)
  /\ UNCHANGED <<varsReq, varsUp, pl, ls, hs>>

SpecAuth == InitAuthConc /\ [][NextAuth]_vars

\* ------------------------------------------------------------------------
\* Concurrent calls of Bucket.uploadSinglePart on one bucket
\* ------------------------------------------------------------------------
\* The answers the server gives to the POST of a single-part upload
PoolResponses ==
  {r \in Responses :
     /\ r.payload = "p1"
     /\ \/ r.status = 200
        \/ r.status = 401 /\ r.code = "expired_auth_token"}

InitPool ==
  /\ InitAuth
  /\ IdleReq
  /\ IdleUp
  /\ cc = NewConc([ContentType |-> 1], DefaultMaxRetries)
  /\ pl \in {NewPool(free, Undefined) : free \in {<<>>, <<1, 2>>}}
  /\ ls = NewListing({}, NoIdentity, NoListOptions)
  /\ hs = NewAppendHash(<<>>)

\* Call i goes on from the state r of getSinglePartUpload / upload; when
\* upload threw, the finally of uploadSinglePart runs.
PoolApply(p, i, r) ==
  [p EXCEPT !.free = IF r.pc = "errored"
                     THEN ReturnToPool(r.pool, r.inUse, r.sp.lease) ELSE r.pool,
            !.inUse = r.inUse,
            !.lease[i] = r.sp.lease,
            !.pc[i] = CASE r.pc = "spPost" -> "post"
                        [] r.pc = "spGetLease" -> "getLease"
                        [] OTHER -> "failed"]

\* A POST of call i ended the upload (result or error): upload's finally
\* clears _inUse, uploadSinglePart's finally gives the lease back
PoolRelease(p, i, pc) ==
  LET used == p.inUse \ {p.lease[i]} IN
  [p EXCEPT !.inUse = used,
            !.free = ReturnToPool(@, used, p.lease[i]),
            !.pc[i] = pc]

\* bucket.uploadSinglePart(fileName, data, options), call i
PoolCall(i) ==
  /\ pl.pc[i] = "idle"
  /\ pl' = PoolApply(pl, i, GetSinglePartUpload(pl.free, pl.inUse, pl.options))

\* SinglePartUpload.requestNew of call i: b2_get_upload_url answers
PoolLeaseReturns(i) ==
  /\ pl.pc[i] = "getLease"
  /\ pl' = PoolApply([pl EXCEPT !.nextLease = @ + 1], i,
                     SingleUpload(pl.free, pl.inUse, pl.nextLease, pl.options))

PoolLeaseThrows(i) ==
  /\ pl.pc[i] = "getLease"
  /\ pl' = [pl EXCEPT !.pc[i] = "failed"]

\* The POST of call i is answered (first attempt of _upload: retries = 0)
PoolPostResponds(i, res) ==
  /\ pl.pc[i] = "post"
  /\ LET c == SingleSwitch(res, 0, SingleMaxRetries(pl.options)) IN
       /\ c = "false" => pl.expired < MaxExpiredLeases
       /\ pl' = CASE c = "return" -> PoolRelease(pl, i, "done")
                  [] c = "false" ->
                       LET p1 == [pl EXCEPT !.expired = @ + 1]
                           p2 == PoolApply(p1, i, GetSinglePartUpload(p1.free, p1.inUse,
                                                                      p1.options))
                       IN [p2 EXCEPT !.free = ReturnToPool(@, p2.inUse, pl.lease[i])]
                  [] OTHER -> PoolRelease(pl, i, "failed")

\* fetch of call i rejects
PoolPostThrows(i) ==
  /\ pl.pc[i] = "post"
  /\ pl' = PoolRelease(pl, i, "failed")

\* A caller calls upload on a SinglePartUpload of its own, possibly while an
\* earlier upload on it is still running
DirectUpload ==
  /\ pl.direct.badUsage < MaxDirectCalls
  /\ pl.direct.inflight < MaxDirectCalls
  /\ LET r == SingleUpload(pl.free, pl.inUse, pl.direct.lease, pl.options) IN
       pl' = IF r.pc = "spPost"
             THEN [pl EXCEPT !.inUse = r.inUse,
                             !.direct.inflight = @ + 1]
             ELSE [pl EXCEPT !.direct.badUsage = @ + 1]

\* The POST of that caller is answered 200
DirectPostResponds ==
  /\ pl.direct.inflight > 0
  /\ pl' = [pl EXCEPT !.inUse = @ \ {pl.direct.lease},
                      !.direct.inflight = @ - 1]

NextPool ==
  /\ \/ \E i \in Requests : PoolCall(i)
     \/ \E i \in Requests : PoolLeaseReturns(i)
     \/ \E i \in Requests : PoolLeaseThrows(i)
     \/ \E i \in Requests : \E res \in PoolResponses : PoolPostResponds(i, res)
     \/ \E i \in Requests : PoolPostThrows(i)
     \/ DirectUpload
     \/ DirectPostResponds
  /\ UNCHANGED <<auth, varsReq, varsUp, cc, ls, hs>>

SpecPool == InitPool /\ [][NextPool]_vars

\* ------------------------------------------------------------------------
\* The upload: Bucket.upload, FileUploadStream, uploadPart, uploadSinglePart
\* ------------------------------------------------------------------------
\* The server may still give an answer that is not a success
MayFail == srv.faults < MaxFaults
Fault == [srv EXCEPT !.faults = @ + 1]

\* The history after the stream went from w to w2: a part sealed on the way
\* is recorded with the number and digest it was given.
RecordSealed(h, w, w2) ==
  IF Len(w2.uploadDigestPromises) > Len(w.uploadDigestPromises)
  THEN [h EXCEPT !.sealed = Append(@, [partNumber |-> w2.up.partNumber,
                                        bytes |-> w2.up.buffer,
                                        sha1 |-> w2.up.sha1])]
  ELSE h

ApplySingleKeepsLease(r) ==
  /\ ws' = [ws EXCEPT !.pc = r.pc, !.error = r.error]
  /\ singlePartUploads' = r.pool
  /\ inUse' = r.inUse
  /\ sp' = r.sp

\* The single-part upload reached the state r; when upload threw, the
\* finally of uploadSinglePart runs
ApplySingle(r) ==
  /\ ws' = [ws EXCEPT !.pc = r.pc, !.error = r.error]
  /\ singlePartUploads' = IF r.pc = "errored"
                          THEN ReturnToPool(r.pool, r.inUse, r.sp.lease) ELSE r.pool
  /\ inUse' = r.inUse
  /\ sp' = r.sp

FitsSinglePartStrict(contentLength, partSize) == contentLength < partSize

\* Bucket.upload: if (contentLength <= this.b2.partSize)
FitsSinglePart(contentLength, partSize) == contentLength <= partSize

\* Bucket.upload(fileName, data, options)
BucketUpload ==
  /\ entry = "upload"
  /\ ws.pc = "idle"
  /\ LET contentLength == Len(input) IN
       IF FitsSinglePart(contentLength, B2PartSize(auth, userSetPartSize))
       THEN /\ ApplySingle(GetSinglePartUpload(singlePartUploads, inUse,
                  [contentLength |-> contentLength, sha1 |-> options.sha1,
                   maxRetries |-> options.maxRetries, backoff |-> options.backoff,
                   data |-> BufferOf(input)]))
            /\ hist' = [hist EXCEPT !.singlePath = TRUE]
            /\ UNCHANGED written
       ELSE LET w2 == Process([ws EXCEPT !.pc = "open"], fileData,
                              StreamPartSize(auth, userSetPartSize), input)
            IN /\ ws' = w2
               /\ written' = Len(input)
               /\ hist' = RecordSealed(hist, ws, w2)
               /\ UNCHANGED <<singlePartUploads, inUse, sp>>
  /\ UNCHANGED <<auth, varsReq, varsConc, userSetPartSize, entry, input, options, fileData, srv>>

\* stream.write(chunk) -> _write -> __process
Write(n) ==
  /\ entry = "stream"
  /\ ws.pc = "open"
  /\ written + n <= Len(input)
  /\ LET w2 == Process(ws, fileData, StreamPartSize(auth, userSetPartSize),
                       SubSeq(input, written + 1, written + n))
     IN /\ ws' = w2
        /\ hist' = RecordSealed(hist, ws, w2)
  /\ written' = written + n
  /\ UNCHANGED <<auth, varsReq, varsConc, userSetPartSize, entry, input, options, fileData,
                 singlePartUploads, inUse, sp, srv>>

\* stream.end() -> _final -> _finishUpload, up to the first await of
\* _uploadAsSinglePart or of _finishMultipart
End ==
  /\ ws.pc = "open"
  /\ written = Len(input)
  /\ IF UseSinglePart(ws)
     THEN /\ hist' = [hist EXCEPT !.singlePath = TRUE,
                                  !.singleAfterPart = Len(hist.sealed) > 0]
          /\ IF ws.isMultipart
             THEN /\ ws' = StreamFails(ws, "BadUsage")
                  /\ UNCHANGED <<singlePartUploads, inUse, sp>>
             ELSE LET o == [contentLength |-> ws.pendingPart.bytes,
                            sha1 |-> ws.pendingPart.digest,
                            maxRetries |-> ws.options.maxRetries,
                            backoff |-> ws.options.backoff,
                            data |-> BufferOf(ws.pendingPart.chunks)]
                  IN IF fileData.fileName = "undefined"
                     THEN /\ ws' = [ws EXCEPT !.pc = "spStat"]
                          /\ sp' = SingleFrame(o, Undefined)
                          /\ UNCHANGED <<singlePartUploads, inUse>>
                     ELSE ApplySingle(GetSinglePartUpload(singlePartUploads, inUse, o))
     ELSE LET part == PartFinal(ws.pendingPart)
              w2 == StreamUploadPart([ws EXCEPT !.pendingPart = part], fileData,
                                     part, <<>>, TRUE)
          IN /\ ws' = w2
             /\ hist' = RecordSealed(hist, ws, w2)
             /\ UNCHANGED <<singlePartUploads, inUse, sp>>
  /\ UNCHANGED <<auth, varsReq, varsConc, userSetPartSize, entry, input, written, options,
                 fileData, srv>>

\* getFileName -> stat -> b2_get_file_info answers, in _startMultipartUpload
StatReturns ==
  /\ ws.pc = "stat"
  /\ hist' = [hist EXCEPT !.fileInfo = @ + 1]
  /\ fileData' = StoredFileData(fileData.fileId)
  /\ ws' = [ws EXCEPT !.pc = "startLarge"]
  /\ UNCHANGED <<auth, varsReq, varsConc, userSetPartSize, entry, input, written, options,
                 singlePartUploads, inUse, sp, srv>>

StatThrows ==
  /\ ws.pc = "stat"
  /\ MayFail
  /\ srv' = Fault
  /\ hist' = [hist EXCEPT !.fileInfo = @ + 1]
  /\ ws' = StreamFails(ws, "ApiError")
  /\ UNCHANGED <<auth, varsReq, varsConc, userSetPartSize, entry, input, written, options,
                 fileData, singlePartUploads, inUse, sp>>

\* b2_start_large_file answers: this._fileData = await res.json()
StartLargeFileReturns ==
  /\ ws.pc = "startLarge"
  /\ hist' = [hist EXCEPT !.start = @ + 1, !.startOk = @ + 1]
  /\ fileData' = StartedFileData(fileData.fileName)
  /\ ws' = [ws EXCEPT !.pc = UploadPartEntry(ws.up.uploadUrl)]
  /\ UNCHANGED <<auth, varsReq, varsConc, userSetPartSize, entry, input, written, options,
                 singlePartUploads, inUse, sp, srv>>

StartLargeFileThrows ==
  /\ ws.pc = "startLarge"
  /\ MayFail
  /\ srv' = Fault
  /\ hist' = [hist EXCEPT !.start = @ + 1]
  /\ ws' = StreamFails(ws, "ApiError")
  /\ UNCHANGED <<auth, varsReq, varsConc, userSetPartSize, entry, input, written, options,
                 fileData, singlePartUploads, inUse, sp>>

\* _getMultipartUploadUrl: b2_get_upload_part_url({fileId}) answers
GetUploadPartUrlReturns ==
  /\ ws.pc = "getUrl"
  /\ hist' = [hist EXCEPT !.getPartUrl = @ + 1,
                          !.partUrlFileIds = @ \cup {fileData.fileId}]
  /\ ws' = [ws EXCEPT !.up.uploadUrl = srv.nextUrl, !.pc = "post"]
  /\ srv' = [srv EXCEPT !.nextUrl = @ + 1]
  /\ UNCHANGED <<auth, varsReq, varsConc, userSetPartSize, entry, input, written, options,
                 fileData, singlePartUploads, inUse, sp>>

GetUploadPartUrlThrows ==
  /\ ws.pc = "getUrl"
  /\ MayFail
  /\ srv' = Fault
  /\ hist' = [hist EXCEPT !.getPartUrl = @ + 1,
                          !.partUrlFileIds = @ \cup {fileData.fileId}]
  /\ ws' = StreamFails(ws, "ApiError")
  /\ UNCHANGED <<auth, varsReq, varsConc, userSetPartSize, entry, input, written, options,
                 fileData, singlePartUploads, inUse, sp>>

PartUploadedDropsUrl(w, fd, partSize, contentSha1) ==
  LET w1 == [w EXCEPT !.uploadDigestPromises[w.up.partNumber] = Fulfilled(contentSha1)]
  IN IF w.up.final THEN [w1 EXCEPT !.pc = "finish"]
     ELSE Process(w1, fd, partSize, w.up.rest)

\* The stream after the part upload it awaits has succeeded: the digest
\* promise resolves with data.contentSha1, the URL goes back to uploadUrls,
\* then __process goes on with the rest of the chunk, or _finishMultipart
\* goes on to b2_finish_large_file.
PartUploaded(w, fd, partSize, contentSha1) ==
  LET w1 == [w EXCEPT !.uploadDigestPromises[w.up.partNumber] = Fulfilled(contentSha1),
                      !.uploadUrls = Append(@, w.up.uploadUrl)]
  IN IF w.up.final THEN [w1 EXCEPT !.pc = "finish"]
     ELSE Process(w1, fd, partSize, w.up.rest)

\* The POST of a part is answered; the server stores the SHA-1 of the body
PartPostResponds(status) ==
  /\ ws.pc = "post"
  /\ status # 200 => (MayFail /\ srv' = Fault)
  /\ status = 200 => srv' = srv
  /\ LET c == PartSwitch(status, ws.up.retryN, ws.up.maxRetries)
         h2 == [hist EXCEPT !.partPost = @ + 1,
                            !.posted = @ \cup {[partNumber |-> ws.up.partNumber,
                                                sha1 |-> ws.up.sha1,
                                                length |-> Len(ws.up.buffer),
                                                url |-> ws.up.uploadUrl]},
                            !.accepted = IF status = 200 THEN @ \cup {ws.up.partNumber} ELSE @,
                            !.droppedUrls = IF status \in {401, 503}
                                            THEN @ \cup {ws.up.uploadUrl} ELSE @,
                            !.acceptedUrls = IF status = 200
                                             THEN Append(@, ws.up.uploadUrl) ELSE @,
                            !.partTimeout = IF status = 408
                                            THEN [url |-> ws.up.uploadUrl,
                                                  getPartUrl |-> hist.getPartUrl,
                                                  partPost |-> hist.partPost + 1]
                                            ELSE @,
                            !.partRejected = IF status \notin {200, 401, 503, 408}
                                             THEN [status |-> status,
                                                   partPost |-> hist.partPost + 1]
                                             ELSE @]
     IN CASE c = "return" ->
               LET w2 == PartUploaded(ws, fileData, StreamPartSize(auth, userSetPartSize),
                                      Sha1(ws.up.buffer))
               IN ws' = w2 /\ hist' = RecordSealed(h2, ws, w2)
          [] c = "newUrl" ->
               /\ ws' = [ws EXCEPT !.up.retryN = @ + 1, !.up.uploadUrl = Undefined,
                                   !.pc = "getUrl"]
               /\ hist' = h2
          [] c = "timer" ->
               /\ ws' = [ws EXCEPT !.pc = "partTimer"]
               /\ hist' = h2
          [] OTHER ->
               /\ ws' = StreamFails(ws, c)
               /\ hist' = h2
  /\ UNCHANGED <<auth, varsReq, varsConc, userSetPartSize, entry, input, written, options,
                 fileData, singlePartUploads, inUse, sp>>

\* fetch rejects: nothing catches it in uploadPart
PartPostThrows ==
  /\ ws.pc = "post"
  /\ MayFail
  /\ srv' = Fault
  /\ hist' = [hist EXCEPT !.partPost = @ + 1]
  /\ ws' = StreamFails(ws, "FetchError")
  /\ UNCHANGED <<auth, varsReq, varsConc, userSetPartSize, entry, input, written, options,
                 fileData, singlePartUploads, inUse, sp>>

\* setTimeout fires after a 408: uploadPart(..., _uploadUrl, ..., retryN + 1)
PartTimerFires ==
  /\ ws.pc = "partTimer"
  /\ ws' = [ws EXCEPT !.up.retryN = @ + 1, !.pc = "post"]
  /\ UNCHANGED <<auth, varsReq, varsConc, userSetPartSize, entry, input, written, options,
                 fileData, singlePartUploads, inUse, sp, srv, hist>>

\* The body of b2_finish_large_file
FinishBody(w, fd) ==
  [fileId |-> fd.fileId,
   partSha1Array |-> [i \in 1..Len(w.uploadDigestPromises) |->
                        w.uploadDigestPromises[i].value]]

\* b2_finish_large_file answers: file._fileData = await res.json()
FinishReturns ==
  /\ ws.pc = "finish"
  /\ hist' = [hist EXCEPT !.finish = @ + 1, !.finishBody = Append(@, FinishBody(ws, fileData))]
  /\ fileData' = FinishedFileData(fileData.fileId)
  /\ ws' = [ws EXCEPT !.pc = "finished"]
  /\ UNCHANGED <<auth, varsReq, varsConc, userSetPartSize, entry, input, written, options,
                 singlePartUploads, inUse, sp, srv>>

FinishThrows ==
  /\ ws.pc = "finish"
  /\ MayFail
  /\ srv' = Fault
  /\ hist' = [hist EXCEPT !.finish = @ + 1, !.finishBody = Append(@, FinishBody(ws, fileData))]
  /\ ws' = StreamFails(ws, "ApiError")
  /\ UNCHANGED <<auth, varsReq, varsConc, userSetPartSize, entry, input, written, options,
                 fileData, singlePartUploads, inUse, sp>>

\* File.uploadSinglePart: await this.getFileName() had to stat the file
SingleStatReturns ==
  /\ ws.pc = "spStat"
  /\ hist' = [hist EXCEPT !.fileInfo = @ + 1]
  /\ fileData' = StoredFileData(fileData.fileId)
  /\ ApplySingle(GetSinglePartUpload(singlePartUploads, inUse, SingleOptions(sp)))
  /\ UNCHANGED <<auth, varsReq, varsConc, userSetPartSize, entry, input, written, options, srv>>

SingleStatThrows ==
  /\ ws.pc = "spStat"
  /\ MayFail
  /\ srv' = Fault
  /\ hist' = [hist EXCEPT !.fileInfo = @ + 1]
  /\ ws' = StreamFails(ws, "ApiError")
  /\ UNCHANGED <<auth, varsReq, varsConc, userSetPartSize, entry, input, written, options,
                 fileData, singlePartUploads, inUse, sp>>

\* SinglePartUpload.requestNew: b2_get_upload_url answers
GetUploadUrlReturns ==
  /\ ws.pc = "spGetLease"
  /\ hist' = [hist EXCEPT !.getUploadUrl = @ + 1]
  /\ srv' = [srv EXCEPT !.nextLease = @ + 1]
  /\ ApplySingle(SingleUpload(singlePartUploads, inUse, srv.nextLease, SingleOptions(sp)))
  /\ UNCHANGED <<auth, varsReq, varsConc, userSetPartSize, entry, input, written, options, fileData>>

GetUploadUrlThrows ==
  /\ ws.pc = "spGetLease"
  /\ MayFail
  /\ srv' = Fault
  /\ hist' = [hist EXCEPT !.getUploadUrl = @ + 1]
  /\ ws' = StreamFails(ws, "ApiError")
  /\ UNCHANGED <<auth, varsReq, varsConc, userSetPartSize, entry, input, written, options,
                 fileData, singlePartUploads, inUse, sp>>

\* The headers of the POST that _upload sends
SingleHeaders(frame) ==
  [contentLength |-> HeaderContentLength(frame.sha1, frame.contentLength),
   sha1 |-> HeaderSha1(frame.sha1),
   lease |-> frame.lease]

\* The POST of SinglePartUpload._upload is answered
SinglePostResponds(res) ==
  /\ ws.pc = "spPost"
  /\ res.status # 200 => (MayFail /\ srv' = Fault)
  /\ res.status = 200 => srv' = srv
  /\ hist' = [hist EXCEPT !.singlePost = @ + 1,
                          !.singleHeaders = Append(@, SingleHeaders(sp)),
                          !.singleAnswers = Append(@, res.status),
                          !.singleExpired =
                             IF res.status = 401 /\ res.code \in {"bad_auth_token",
                                                                  "expired_auth_token"}
                             THEN @ \cup {sp.lease} ELSE @]
  /\ LET c == SingleSwitch(res, sp.retries, SingleMaxRetries(sp)) IN
       CASE c = "return" ->
              /\ inUse' = inUse \ {sp.lease}
              /\ singlePartUploads' = ReturnToPool(singlePartUploads, inUse', sp.lease)
              /\ fileData' = UploadedFileData(fileData.fileName)
              /\ ws' = [ws EXCEPT !.pc = "finished"]
              /\ sp' = sp
         [] c = "false" ->
              /\ LET r == GetSinglePartUpload(singlePartUploads, inUse, SingleOptions(sp))
                 IN ApplySingle([r EXCEPT !.pool = ReturnToPool(@, r.inUse, sp.lease)])
              /\ fileData' = fileData
         [] c = "timer" ->
              /\ ws' = [ws EXCEPT !.pc = "spTimer"]
              /\ UNCHANGED <<fileData, singlePartUploads, inUse, sp>>
         [] OTHER ->
              /\ inUse' = inUse \ {sp.lease}
              /\ singlePartUploads' = ReturnToPool(singlePartUploads, inUse', sp.lease)
              /\ ws' = StreamFails(ws, c)
              /\ UNCHANGED <<fileData, sp>>
  /\ UNCHANGED <<auth, varsReq, varsConc, userSetPartSize, entry, input, written, options>>

\* fetch rejects inside _upload: the finally blocks run, the error propagates
SinglePostThrows ==
  /\ ws.pc = "spPost"
  /\ MayFail
  /\ srv' = Fault
  /\ hist' = [hist EXCEPT !.singlePost = @ + 1,
                          !.singleHeaders = Append(@, SingleHeaders(sp)),
                          !.singleAnswers = Append(@, 0)]
  /\ inUse' = inUse \ {sp.lease}
  /\ singlePartUploads' = ReturnToPool(singlePartUploads, inUse', sp.lease)
  /\ ws' = StreamFails(ws, "FetchError")
  /\ UNCHANGED <<auth, varsReq, varsConc, userSetPartSize, entry, input, written, options,
                 fileData, sp>>

\* setTimeout fires: this._upload(fileName, data, {...options, contentLength}, retries + 1)
SingleTimerFires ==
  /\ ws.pc = "spTimer"
  /\ sp' = [sp EXCEPT !.retries = @ + 1,
                      !.contentLength = HeaderContentLength(sp.sha1, @)]
  /\ ws' = [ws EXCEPT !.pc = "spPost"]
  /\ UNCHANGED <<auth, varsReq, varsConc, userSetPartSize, entry, input, written, options,
                 fileData, singlePartUploads, inUse, srv, hist>>

Next ==
  \/ BucketUpload
  \/ \E n \in 1..MaxLen : Write(n)
  \/ End
  \/ StatReturns
  \/ StatThrows
  \/ StartLargeFileReturns
  \/ StartLargeFileThrows
  \/ GetUploadPartUrlReturns
  \/ GetUploadPartUrlThrows
  \/ \E status \in {200, 400, 401, 408, 503} : PartPostResponds(status)
  \/ PartPostThrows
  \/ PartTimerFires
  \/ FinishReturns
  \/ FinishThrows
  \/ SingleStatReturns
  \/ SingleStatThrows
  \/ GetUploadUrlReturns
  \/ GetUploadUrlThrows
  \/ \E res \in Responses : SinglePostResponds(res)
  \/ SinglePostThrows
  \/ SingleTimerFires

Spec == Init /\ [][Next]_vars

\* ------------------------------------------------------------------------
\* One call of Bucket.uploadSinglePart with a Buffer or a readable stream
\* ------------------------------------------------------------------------
InitSingle ==
  /\ InitAuth
  /\ IdleReq
  /\ IdleConc
  /\ userSetPartSize = Undefined
  /\ entry \in {"singleBuffer", "singleStream"}
  /\ input \in {Bytes(n) : n \in 0..MaxLen}
  /\ written = 0
  /\ options \in [maxRetries : {Undefined} \cup (0..MaxRetriesOpt),
                  backoff : {Undefined},
                  sha1 : {NoDigest, Sha1(input)},
                  contentLength : {Undefined, Len(input)}]
  /\ fileData = [fileName |-> "f", fileId |-> "undefined", action |-> "undefined"]
  /\ ws = NewStream(NoOptions, "idle")
  /\ singlePartUploads \in {<<>>, <<0>>}
  /\ inUse = {}
  /\ sp = NoSingleUpload
  /\ srv = NewServer
  /\ hist = NoHistory

\* bucket.uploadSinglePart(fileName, data, options)
UploadSinglePart ==
  /\ entry \in {"singleBuffer", "singleStream"}
  /\ ws.pc = "idle"
  /\ ApplySingle(GetSinglePartUpload(singlePartUploads, inUse,
        [contentLength |-> options.contentLength, sha1 |-> options.sha1,
         maxRetries |-> options.maxRetries, backoff |-> options.backoff,
         data |-> IF entry = "singleBuffer" THEN BufferOf(input) ELSE StreamOf(input)]))
  /\ hist' = [hist EXCEPT !.singlePath = TRUE]
  /\ UNCHANGED <<auth, varsReq, varsConc, userSetPartSize, entry, input, written, options,
                 fileData, srv>>

NextSingle ==
  \/ UploadSinglePart
  \/ GetUploadUrlReturns
  \/ GetUploadUrlThrows
  \/ \E res \in Responses : SinglePostResponds(res)
  \/ SinglePostThrows
  \/ SingleTimerFires

SpecSingle == InitSingle /\ [][NextSingle]_vars

\* ------------------------------------------------------------------------
\* B2.partSize: the setter and re-authorization
\* ------------------------------------------------------------------------
\* The part sizes b2_authorize_account may answer
PartSizes ==
  {p \in [absoluteMinimumPartSize : 1..MaxPartSize, recommendedPartSize : 1..MaxPartSize] :
     p.absoluteMinimumPartSize <= p.recommendedPartSize}

\* set partSize(size): this._userSetPartSize = size
SetPartSize(size) ==
  /\ userSetPartSize' = size
  /\ UNCHANGED <<auth, varsReq, varsConc, entry, input, written, options, fileData, ws,
                 singlePartUploads, inUse, sp, srv, hist>>

\* authorize(): this.auth = await authorize(this.credentials)
Authorize(p) ==
  /\ auth.authorizationToken <= MaxAuthorizations
  /\ auth' = [authorizationToken |-> auth.authorizationToken + 1,
              absoluteMinimumPartSize |-> p.absoluteMinimumPartSize,
              recommendedPartSize |-> p.recommendedPartSize]
  /\ UNCHANGED <<varsReq, varsUp, varsConc>>

NextSize ==
  \/ \E size \in 0..(MaxPartSize + 1) : SetPartSize(size)
  \/ \E p \in PartSizes : Authorize(p)

SpecSize == InitReq /\ [][NextSize]_vars

\* ------------------------------------------------------------------------
\* File.stat and Bucket.files on a bucket whose files do not change
\* ------------------------------------------------------------------------
InitList ==
  /\ InitAuth
  /\ IdleReq
  /\ IdleUp
  /\ cc = NewConc([ContentType |-> 1], DefaultMaxRetries)
  /\ pl = NewPool(<<>>, Undefined)
  /\ ls \in {NewListing(files, identity, opts) :
               files \in SUBSET FileNames, identity \in Identities, opts \in ListOptions}
  /\ hs = NewAppendHash(<<>>)

\* file.stat(), up to its first request
Stat ==
  /\ ls.statPc = "idle"
  /\ ls' = IF ls.fileData.fileId # Undefined
           THEN [ls EXCEPT !.statPc = "getFileInfo",
                           !.statRequests = Append(@, [op |-> "b2_get_file_info",
                                                       fileId |-> ls.fileData.fileId])]
           ELSE IF ls.fileData.fileName # Undefined
           THEN [ls EXCEPT !.statPc = "list",
                           !.statRequests = Append(@, [op |-> "b2_list_file_names",
                                                       startFileName |-> ls.fileData.fileName,
                                                       maxFileCount |-> 1])]
           ELSE [ls EXCEPT !.statPc = "thrown", !.statError = "BadUsage"]

\* b2_get_file_info answers: return this._fileData = await res.json()
StatFileInfoReturns ==
  /\ ls.statPc = "getFileInfo"
  /\ \E n \in ls.files :
       /\ IdOf(n) = ls.fileData.fileId
       /\ ls' = [ls EXCEPT !.statPc = "returned", !.fileData = FileRecord(n)]

\* b2_list_file_names answers the request of stat
StatListReturns ==
  /\ ls.statPc = "list"
  /\ LET batch == GetFileDataBatch(ls.files, [batchSize |-> 1,
                                              startFileName |-> ls.fileData.fileName])
         r == StatByName(ls.fileData.fileName, batch)
     IN ls' = IF r.pc = "returned"
              THEN [ls EXCEPT !.statPc = "returned", !.fileData = r.fileData]
              ELSE [ls EXCEPT !.statPc = "thrown", !.statError = r.error]

\* callApi throws (no such file id, or the request failed)
StatApiThrows ==
  /\ ls.statPc \in {"getFileInfo", "list"}
  /\ ls' = [ls EXCEPT !.statPc = "thrown", !.statError = "ApiError"]

\* The consumer of bucket.files(opts) asks for the first file: listFileData
\* runs up to its first await
FilesStart ==
  /\ ls.iterPc = "idle"
  /\ ls' = [ls EXCEPT !.iterPc = "fetch"]

\* _getFileDataBatch(options) answers: yield* files; if (nextFileName ===
\* null) break; startFileName = nextFileName
FilesBatchReturns ==
  /\ ls.iterPc = "fetch"
  /\ Len(ls.batches) < MaxBatches
  /\ LET request == RestOptions(ls.opts)
         batch == GetFileDataBatch(ls.files, request)
     IN ls' = [ls EXCEPT !.batches = Append(@, [request |-> request,
                                               nextFileName |-> batch.nextFileName]),
                         !.yielded = @ \o [i \in DOMAIN batch.files |-> batch.files[i].fileName],
                         !.iterPc = IF batch.nextFileName = Null THEN "done" ELSE "fetch",
                         !.startFileName = IF batch.nextFileName = Null
                                           THEN @ ELSE batch.nextFileName]

\* _getFileDataBatch throws: the iteration ends with the error
FilesBatchThrows ==
  /\ ls.iterPc = "fetch"
  /\ ls' = [ls EXCEPT !.iterPc = "thrown"]

NextList ==
  /\ \/ Stat
     \/ StatFileInfoReturns
     \/ StatListReturns
     \/ StatApiThrows
     \/ FilesStart
     \/ FilesBatchReturns
     \/ FilesBatchThrows
  /\ UNCHANGED <<auth, varsReq, varsUp, cc, pl, hs>>

SpecList == InitList /\ [][NextList]_vars

\* ------------------------------------------------------------------------
\* A source piped into an AppendHashStream, chunk by chunk
\* ------------------------------------------------------------------------
InitHash ==
  /\ InitAuth
  /\ IdleReq
  /\ IdleUp
  /\ cc = NewConc([ContentType |-> 1], DefaultMaxRetries)
  /\ pl = NewPool(<<>>, Undefined)
  /\ ls = NewListing({}, NoIdentity, NoListOptions)
  /\ hs \in {NewAppendHash(Bytes(n)) : n \in 0..MaxLen}

\* The source delivers its next n bytes as one chunk
HashTransform(n) ==
  /\ hs.pc = "open"
  /\ hs.read + n <= Len(hs.input)
  /\ hs' = AppendHashTransform(hs, SubSeq(hs.input, hs.read + 1, hs.read + n))

\* The source ends
HashFlush ==
  /\ hs.pc = "open"
  /\ hs.read = Len(hs.input)
  /\ hs' = AppendHashFlush(hs)

\* digest() is called on the stream after the source has ended
HashDigestAgain ==
  /\ hs.pc = "flushed"
  /\ Len(hs.returned) < MaxDigestCalls
  /\ LET h2 == AppendHashDigest(hs)
     IN hs' = [h2 EXCEPT !.returned = Append(@, h2.digest)]

NextHash ==
  /\ \/ \E n \in 1..MaxLen : HashTransform(n)
     \/ HashFlush
     \/ HashDigestAgain
  /\ UNCHANGED <<auth, varsReq, varsUp, cc, pl, ls>>

SpecHash == InitHash /\ [][NextHash]_vars

\* ------------------------------------------------------------------------
\* Properties of B2.request
\* ------------------------------------------------------------------------
\* Every answer received so far by the call was a plain 503 or a plain 408,
\* except possibly a final 200.
OnlySaw503And408 ==
  \A k \in Kinds \ {"ok", "s503", "s408"} : rqSeen[k] = 0

Failed503And408 == rqSeen["s503"] + rqSeen["s408"]

\* C8: when the server answers 503 or 408 to the first k attempts of a call
\* and 200 afterwards, with k <= maxRetries, the call returns that 200
\* response after exactly k+1 requests; when 503 (408) is answered on
\* every attempt the call sends exactly maxRetries+1 requests and then
\* throws ServiceUnavailable (RequestTimeout), and throws nothing earlier.
C8_Retry503And408 ==
  OnlySaw503And408 =>
    /\ rqSent <= rqOptions.maxRetries + 1
    /\ rqPc = "returned" =>
         /\ rqResult = "response"
         /\ rqReturned = rqLast
         /\ rqLast.status = 200
         /\ rqSent = Failed503And408 + 1
         /\ Failed503And408 <= rqOptions.maxRetries
    /\ rqPc = "thrown" =>
         /\ rqSent = rqOptions.maxRetries + 1
         /\ Failed503And408 = rqSent
         /\ rqLast.status = 503 => rqResult = "ServiceUnavailable"
         /\ rqLast.status = 408 => rqResult = "RequestTimeout"

\* The call returned a 200 after using its whole retry budget on 503s and 408s.
C8_Witness ==
  /\ rqPc = "returned"
  /\ OnlySaw503And408
  /\ rqSeen["s503"] >= 1
  /\ rqSeen["s408"] >= 1
  /\ Failed503And408 = rqOptions.maxRetries

\* C9: a 500 answer is retried; InternalServerError is thrown only once the
\* retry budget is exhausted.
C9_500IsRetried ==
  rqResult = "InternalServerError" => rqRetries >= rqOptions.maxRetries

\* C10: a 429 answer is retried; when the budget is exhausted the call
\* throws TooManyRequests.
C10_429IsRetried ==
  (rqPc = "thrown" /\ rqLast.status = 429 /\ rqLast.code = "other") =>
    (rqResult = "TooManyRequests" /\ rqRetries >= rqOptions.maxRetries)

\* C11: a transport error is retried at most maxRetries times, so a call
\* never sends more than maxRetries + 1 requests.
C11_TransportRetriesBounded ==
  rqSent <= rqOptions.maxRetries + 1

\* Every answer of the server so far carried an expired or bad token code
OnlySawExpired ==
  /\ rqSeen["expired"] >= 1
  /\ \A k \in Kinds \ {"expired"} : rqSeen[k] = 0

TerminalError(res) ==
  CASE res.status = 200 -> "none"
    [] res.code = "bad_request" -> "BadRequest"
    [] res.code = "unauthorized" -> "UnauthorizedRequest"
    [] res.code = "download_cap_exceeded" -> "DownloadCapExceeded"
    [] res.code \in {"bad_auth_token", "expired_auth_token"} -> "none"
    [] res.status = 400 -> "BadRequest"
    [] res.status = 403 -> "Forbidden"
    [] res.status = 416 -> "RangeNotSatisfiable"
    [] res.status \in {401, 405} -> "UnknownServerError"
    [] OTHER -> "none"

\* C15: a terminal answer (code bad_request, unauthorized or
\* download_cap_exceeded whatever the status; else status 400, 403, 416; else
\* a status outside the table) makes the call fail with the error of the
\* table; it is the only such answer of the call and the last request sent:
\* no authorize call and no retry follows it.
C15_TerminalClassification ==
  /\ TerminalError(rqLast) # "none" =>
       /\ rqPc = "thrown"
       /\ rqResult = TerminalError(rqLast)
       /\ rqSeen["terminal"] = 1
  /\ rqSeen["terminal"] <= 1
  /\ rqSeen["terminal"] = 1 => (rqPc = "thrown" /\ TerminalError(rqLast) = rqResult)

\* A 416 answered after a retry was classified RangeNotSatisfiable
C15_Witness ==
  /\ rqLast.status = 416
  /\ rqLast.code = "other"
  /\ rqResult = "RangeNotSatisfiable"
  /\ rqSent >= 2

\* ------------------------------------------------------------------------
\* Properties of concurrent calls of B2.request
\* ------------------------------------------------------------------------
\* C13: re-authorization is single-flight: the calls that were answered
\* "expired" for one token cause one call of authorize, so there are never
\* more authorize calls than tokens that were refused.
C13_SingleFlightAuthorize ==
  cc.authCalls <= Cardinality(cc.expiredTokens)

\* C14: every request carries in Authorization the token that is in
\* this.auth when it is sent, whatever the caller put in request.headers,
\* and never a token that a completed re-authorization has replaced.
C14_CurrentTokenOnEveryRequest ==
  \A i \in Requests :
    cc.pc[i] # "idle" =>
      /\ cc.header[i] = cc.tokenAtSend[i]
      /\ ~cc.replacedAtSend[i]

\* A caller gave an Authorization header of its own; one call re-authorized
\* and sent its retry while another call's request, sent with the replaced
\* token, was still in flight
C14_Witness ==
  /\ "Authorization" \in DOMAIN cc.requestHeaders
  /\ \E i, j \in Requests :
       /\ i # j
       /\ cc.pc[i] = "inflight" /\ cc.retries[i] >= 1
       /\ cc.header[i] = auth.authorizationToken
       /\ cc.pc[j] = "inflight"
       /\ cc.header[j] \in cc.replaced

\* ------------------------------------------------------------------------
\* Properties of concurrent single-part uploads
\* ------------------------------------------------------------------------
\* Call i holds a lease
Holding(i) == pl.pc[i] = "post"

\* C16: at most one upload holds a lease at a time (no two calls hold the
\* same lease, no lease has two uploads running); a lease of the free set is
\* not inUse, is held by no call and appears once in the free set; upload on
\* a lease that is inUse fails without sending a request.
C16_LeaseExclusive ==
  /\ \A i, j \in Requests :
       (i # j /\ Holding(i) /\ Holding(j)) => pl.lease[i] # pl.lease[j]
  /\ pl.direct.inflight <= 1
  /\ pl.direct.inflight = 1 => pl.direct.lease \in pl.inUse
  /\ \A i \in Requests : Holding(i) => pl.lease[i] # pl.direct.lease
  /\ \A k \in 1..Len(pl.free) :
       /\ pl.free[k] \notin pl.inUse
       /\ \A i \in Requests : Holding(i) => pl.lease[i] # pl.free[k]
       /\ \A k2 \in 1..Len(pl.free) : k2 # k => pl.free[k2] # pl.free[k]
  /\ \A i \in Requests : Holding(i) => pl.lease[i] \in pl.inUse

\* Two calls post at the same time on different leases while a third caller
\* was refused a second upload on the lease it is using
C16_Witness ==
  /\ \E i, j \in Requests : i # j /\ pl.pc[i] = "post" /\ pl.pc[j] = "post"
  /\ pl.direct.badUsage >= 1
  /\ pl.direct.lease \in pl.inUse

\* ------------------------------------------------------------------------
\* Properties of the upload
\* ------------------------------------------------------------------------
\* b2.partSize of the client that runs the upload
ConfiguredPartSize == B2PartSize(auth, userSetPartSize)

\* The number of sealed parts
K == Len(hist.sealed)

RECURSIVE SealedBytes(_)
\* The bytes of the first n sealed parts, in the order they were sealed
SealedBytes(n) ==
  IF n = 0 THEN <<>> ELSE SealedBytes(n - 1) \o hist.sealed[n].bytes

CeilDiv(a, b) == (a + b - 1) \div b

\* C1: the sealed parts are numbered 1, 2, ..., K in input order; every POST
\* of a part (a retry included) carries the number and digest the part was
\* sealed with; the partSha1Array sent to b2_finish_large_file has K entries
\* and entry i is the SHA-1 of the bytes of part i.
C1_PartNumbersInOrder ==
  /\ \A i \in 1..K : hist.sealed[i].partNumber = i
  /\ SealedBytes(K) = SubSeq(input, 1, Len(SealedBytes(K)))
  /\ \A p \in hist.posted :
       /\ p.partNumber \in 1..K
       /\ p.sha1 = Sha1(hist.sealed[p.partNumber].bytes)
       /\ p.length = Len(hist.sealed[p.partNumber].bytes)
  /\ \A i \in 1..Len(hist.finishBody) :
       hist.finishBody[i].partSha1Array =
         [j \in 1..K |-> Sha1(hist.sealed[j].bytes)]

\* A finished upload of at least two parts, one of which was posted again
C1_Witness ==
  /\ ws.pc = "finished"
  /\ Len(hist.finishBody) = 1
  /\ K >= 2
  /\ hist.partPost > K

\* C2: a buffer longer than b2.partSize given to Bucket.upload is uploaded
\* in ceil(|b| / b2.partSize) parts, every part but the last of exactly
\* b2.partSize bytes, the last of the remaining bytes.
C2_PartsOfConfiguredSize ==
  (entry = "upload" /\ Len(input) > ConfiguredPartSize /\ ws.pc = "finished") =>
     /\ K = CeilDiv(Len(input), ConfiguredPartSize)
     /\ \A i \in 1..(K - 1) : Len(hist.sealed[i].bytes) = ConfiguredPartSize
     /\ Len(hist.sealed[K].bytes) = Len(input) - (K - 1) * ConfiguredPartSize

\* C3: a stream of at most b2.partSize bytes is uploaded as a single part (no
\* part is sealed, no b2_start_large_file, no part POST); a longer one is
\* uploaded in parts; the pending part never holds more than b2.partSize.
C3_StreamDecidesByPartSize ==
  entry = "stream" =>
     /\ Len(input) <= ConfiguredPartSize =>
          (K = 0 /\ hist.start = 0 /\ hist.partPost = 0)
     /\ (Len(input) > ConfiguredPartSize /\ ws.pc = "finished") =>
          (K > 0 /\ hist.singlePost = 0)
     /\ ws.pendingPart.bytes <= ConfiguredPartSize

\* C4: Bucket.upload of a buffer of at most b2.partSize bytes (the boundary
\* included) takes the single-part path: nothing of a large file is ever
\* issued, and a 200 to the first POST makes that POST the only one.
C4_SmallBufferIsSinglePart ==
  (entry = "upload" /\ Len(input) <= ConfiguredPartSize) =>
     /\ K = 0
     /\ hist.start = 0 /\ hist.getPartUrl = 0 /\ hist.partPost = 0 /\ hist.finish = 0
     /\ ws.pc # "idle" => hist.singlePath
     /\ (hist.singleAnswers # <<>> /\ hist.singleAnswers[1] = 200) =>
          (hist.singlePost = 1 /\ ws.pc = "finished")

\* A buffer of exactly b2.partSize bytes was stored by one POST
C4_Witness ==
  /\ entry = "upload"
  /\ Len(input) = ConfiguredPartSize
  /\ ws.pc = "finished"
  /\ hist.singlePost = 1
  /\ hist.singleAnswers = <<200>>

\* C5: b2_finish_large_file is issued at most once, and only after
\* b2_start_large_file has succeeded and every part 1..K has been answered
\* 200; when a part upload fails, it is never issued and the stream carries
\* that error.
C5_FinishOnceAfterStartAndParts ==
  /\ hist.finish <= 1
  /\ hist.finish > 0 => (hist.startOk >= 1 /\ hist.accepted = 1..K)
  /\ (ws.pc = "errored" /\ hist.accepted # 1..K) => hist.finish = 0
  /\ ws.pc = "errored" => ws.error # "none"

\* C6: once anything of a large file is issued (a b2_get_upload_part_url, a
\* part POST, a b2_finish_large_file), b2_start_large_file has been called
\* exactly once and has succeeded, and the fileId it returned is the one in
\* every b2_get_upload_part_url and in b2_finish_large_file.
C6_StartCalledOnce ==
  /\ hist.start <= 1
  /\ (hist.getPartUrl > 0 \/ hist.partPost > 0 \/ hist.finish > 0) =>
       (hist.start = 1 /\ hist.startOk = 1)
  /\ hist.partUrlFileIds \subseteq {StartedFileData("f").fileId}
  /\ \A i \in 1..Len(hist.finishBody) :
       hist.finishBody[i].fileId = StartedFileData("f").fileId

\* C7: a stream that has sealed a part never takes the single-part path and
\* never issues a single-part POST.
C7_NoDowngrade ==
  /\ ~hist.singleAfterPart
  /\ K > 0 => (hist.singlePost = 0 /\ hist.getUploadUrl = 0)
  /\ (hist.singlePath /\ ws.pc # "errored") => K = 0

\* A stream that sealed parts reached its end and finished as a large file
C7_Witness ==
  /\ entry = "stream"
  /\ K > 0
  /\ ws.pc = "finished"
  /\ hist.finish = 1
  /\ hist.singlePost = 0

\* The leases of the free set
FreeLeases == {singlePartUploads[k] : k \in 1..Len(singlePartUploads)}

\* The lease of the last single-part POST
LastLease == hist.singleHeaders[Len(hist.singleHeaders)].lease

\* C17: a lease goes back to the free set only after a clean 200: when the
\* single-part upload has failed on a POST, the lease of that POST is not
\* in the free set.
C17_FailedLeaseDropped ==
  (ws.pc = "errored" /\ hist.singleHeaders # <<>> /\ sp.lease = LastLease) =>
     LastLease \notin FreeLeases

\* C18: a lease whose POST was answered 401 with bad_auth_token or
\* expired_auth_token stays inUse and out of the free set, no later POST of
\* the upload uses it, the upload goes on with another lease, and a 200 to
\* a later POST makes the upload succeed with that answer.
C18_ExpiredLeaseReplaced ==
  /\ \A l \in hist.singleExpired :
       /\ l \in inUse
       /\ l \notin FreeLeases
       /\ ws.pc \in {"spPost", "spTimer"} => sp.lease # l
  /\ \A k1, k2 \in 1..Len(hist.singleHeaders) :
       (k1 < k2 /\ hist.singleAnswers[k1] = 401) =>
          hist.singleHeaders[k2].lease # hist.singleHeaders[k1].lease
  /\ (hist.singleExpired # {} /\ hist.singleAnswers[Len(hist.singleAnswers)] = 200) =>
       (ws.pc = "finished" /\ fileData = UploadedFileData(fileData.fileName))

\* The first POST was answered "expired", the second, on another lease, 200
C18_Witness ==
  /\ Len(hist.singleAnswers) = 2
  /\ hist.singleAnswers = <<401, 200>>
  /\ hist.singleHeaders[1].lease \in hist.singleExpired
  /\ hist.singleHeaders[2].lease # hist.singleHeaders[1].lease
  /\ ws.pc = "finished"

\* The upload URLs of the part pool
PooledUrls == {ws.uploadUrls[k] : k \in 1..Len(ws.uploadUrls)}

\* C19: an upload URL whose part POST was answered 401 or 503 is dropped: it
\* is not in the part pool and no POST is sent or scheduled on it again; the
\* retry waits for a fresh URL from b2_get_upload_part_url.
C19_PartLeaseDropped ==
  /\ PooledUrls \cap hist.droppedUrls = {}
  /\ ws.pc \in {"post", "partTimer"} => ws.up.uploadUrl \notin hist.droppedUrls
  /\ srv.nextUrl - 1 >= Cardinality(hist.droppedUrls)
                        + (IF ws.pc \in {"post", "partTimer"} THEN 1 ELSE 0)

\* Two upload URLs were dropped and the upload finished on fresh ones
C19_Witness ==
  /\ Cardinality(hist.droppedUrls) >= 2
  /\ ws.pc = "finished"
  /\ hist.finish = 1

\* C20: the retries of one part count against one budget of maxRetries, so
\* no POST of a part is sent after maxRetries retries of it.
C20_PartRetryBudget ==
  ws.pc = "post" => ws.up.retryN <= ws.up.maxRetries
\* The last answer to a part POST was a 408 and no POST has been sent since
AfterPartTimeout ==
  /\ hist.partPost > 0
  /\ hist.partTimeout.partPost = hist.partPost

\* C21: after a 408 to a part POST the part either fails (the retries are
\* used up) or sleeps and is posted again to the very upload URL that
\* answered 408, with no b2_get_upload_part_url call in between; a status
\* other than 200, 401, 503 and 408 ends the upload with UnknownServerError
\* and no further POST.
C21_PartTimeoutSameLease ==
  /\ (AfterPartTimeout /\ ws.pc # "errored") =>
        /\ ws.pc \in {"partTimer", "post"}
        /\ ws.up.uploadUrl = hist.partTimeout.url
        /\ hist.getPartUrl = hist.partTimeout.getPartUrl
  /\ hist.partRejected.status # 0 =>
        /\ ws.pc = "errored"
        /\ ws.error = "UnknownServerError"
        /\ hist.partPost = hist.partRejected.partPost

\* The retry after a 408 is about to be posted
C21_Witness ==
  /\ AfterPartTimeout
  /\ ws.pc = "post"
  /\ ws.up.retryN >= 1
  /\ ws.up.uploadUrl = hist.partTimeout.url

\* C22: a buffer uploaded with Bucket.upload without a SHA-1 is posted with
\* Content-Length equal to its byte length and X-Bz-Content-Sha1 equal to
\* its SHA-1 digest; hex_digits_at_end is sent only by the stream entry.
C22_BufferCarriesOwnHash ==
  \A i \in DOMAIN hist.singleHeaders :
    /\ hist.singleHeaders[i].sha1 = HexDigitsAtEnd => entry = "stream"
    /\ (entry = "upload" /\ options.sha1 = NoDigest) =>
          /\ hist.singleHeaders[i].contentLength = Len(input)
          /\ hist.singleHeaders[i].sha1 = Sha1(input)

\* C23: every single-part POST that defers the hash, the first and each
\* retry after a 408 or 429, carries Content-Length equal to the declared
\* content length plus 40.
C23_DeferredLengthStable ==
  \A i \in DOMAIN hist.singleHeaders :
    hist.singleHeaders[i].sha1 = HexDigitsAtEnd =>
      hist.singleHeaders[i].contentLength = Len(input) + HashTrailerLength

\* C24: after a failed upload the File holds no more than the identity it
\* was constructed with; after a successful one it holds the record of the
\* stored file.
C24_MetadataSetOnlyOnSuccess ==
  /\ ws.pc = "errored" => fileData \in FileIdentities
  /\ ws.pc = "finished" =>
        /\ fileData.action = "upload"
        /\ fileData.fileId \in {"id_single", "id_large"}

\* The answers to the single-part POSTs so far, all of them status s
AllAnswered(s) ==
  /\ hist.singleAnswers # <<>>
  /\ \A i \in DOMAIN hist.singleAnswers : hist.singleAnswers[i] = s

LastAnswer ==
  IF hist.singleAnswers = <<>> THEN 0
  ELSE hist.singleAnswers[Len(hist.singleAnswers)]

\* C27: a single-part POST answered 503 is retried and fails with
\* ServiceUnavailable only when maxRetries is used up, one answered 403
\* fails with Forbidden, one answered 405 fails with the internal error.
C27_SingleStatusMapping ==
  /\ LastAnswer = 503 =>
        \/ ws.pc \in {"spTimer", "spPost"}
        \/ /\ ws.pc = "errored"
           /\ ws.error = "ServiceUnavailable"
           /\ sp.retries >= SingleMaxRetries(sp)
  /\ LastAnswer = 403 => (ws.pc = "errored" /\ ws.error = "Forbidden")
  /\ LastAnswer = 405 => (ws.pc = "errored" /\ ws.error = "Internal")

\* The single-part upload answered s every time: it stays on one lease that
\* is in use until it fails with e, after exactly maxRetries + 1 POSTs.
RetriedOnSameLease(s, e) ==
  AllAnswered(s) =>
    /\ \A i \in DOMAIN hist.singleHeaders : hist.singleHeaders[i].lease = sp.lease
    /\ Len(hist.singleAnswers) <= SingleMaxRetries(sp) + 1
    /\ \/ /\ ws.pc \in {"spTimer", "spPost"}
          /\ sp.lease \in inUse
          /\ sp.retries = Len(hist.singleAnswers) - (IF ws.pc = "spTimer" THEN 1 ELSE 0)
       \/ /\ ws.pc = "errored"
          /\ ws.error = e
          /\ Len(hist.singleAnswers) = SingleMaxRetries(sp) + 1

\* C28: a single-part upload answered 408 every time posts maxRetries + 1
\* times to the same lease, which stays in use between the attempts, and
\* fails with RequestTimeout; answered 429 every time it does the same and
\* fails with TooManyRequests.
C28_SingleRetrySameLease ==
  /\ RetriedOnSameLease(408, "RequestTimeout")
  /\ RetriedOnSameLease(429, "TooManyRequests")

\* Two retries after 408, then RequestTimeout
C28_Witness ==
  /\ AllAnswered(408)
  /\ ws.pc = "errored"
  /\ ws.error = "RequestTimeout"
  /\ SingleMaxRetries(sp) >= 1
  /\ Len(hist.singleAnswers) = SingleMaxRetries(sp) + 1

\* The upload URLs in the bucket's free set
FreeSet == {singlePartUploads[i] : i \in DOMAIN singlePartUploads}

\* uploadSinglePart was called with a readable stream and no contentLength
StreamOfUnknownLength ==
  /\ entry = "singleStream"
  /\ options.contentLength = Undefined

\* C29: a single-part upload of a readable stream without contentLength
\* sends no POST; once it has a SinglePartUpload it fails with BadUsage, and
\* that SinglePartUpload is not in use and is back in the bucket's free set.
C29_StreamNeedsContentLength ==
  StreamOfUnknownLength =>
    /\ hist.singlePost = 0
    /\ inUse = {}
    /\ ws.pc \in {"idle", "spGetLease", "errored"}
    /\ ws.pc = "errored" =>
          \/ ws.error = "ApiError" /\ sp.lease = Undefined
          \/ /\ ws.error = "BadUsage"
             /\ sp.lease # Undefined
             /\ sp.lease \in FreeSet

\* BadUsage on a SinglePartUpload that was requested for this call
C29_Witness ==
  /\ StreamOfUnknownLength
  /\ ws.pc = "errored"
  /\ ws.error = "BadUsage"
  /\ hist.getUploadUrl = 1
  /\ singlePartUploads = <<sp.lease>>

\* What reading b2.partSize returns now
PartSizeRead == B2PartSize(auth, userSetPartSize)

\* C30: b2.partSize reads as the larger of the size that was set and
\* absoluteMinimumPartSize, and as recommendedPartSize when none was set;
\* a re-authorization leaves the size that was set alone, so that the value
\* read changes only with the two sizes of the new authorization.
C30_PartSizeClamped ==
  /\ [](/\ userSetPartSize = Undefined => PartSizeRead = auth.recommendedPartSize
        /\ userSetPartSize # Undefined =>
              /\ PartSizeRead >= auth.absoluteMinimumPartSize
              /\ PartSizeRead >= userSetPartSize
              /\ PartSizeRead \in {userSetPartSize, auth.absoluteMinimumPartSize})
  /\ [][/\ auth' # auth => userSetPartSize' = userSetPartSize
        /\ (/\ userSetPartSize' = userSetPartSize
            /\ auth'.absoluteMinimumPartSize = auth.absoluteMinimumPartSize
            /\ auth'.recommendedPartSize = auth.recommendedPartSize) =>
             PartSizeRead' = PartSizeRead]_vars

\* A size below the minimum of a later authorization reads as that minimum
C30_Witness ==
  /\ userSetPartSize # Undefined
  /\ auth.authorizationToken > 1
  /\ auth.absoluteMinimumPartSize > MinPart
  /\ userSetPartSize < auth.absoluteMinimumPartSize
  /\ PartSizeRead = auth.absoluteMinimumPartSize

\* The File was constructed from a name alone
KnownByName ==
  /\ ls.identity.fileId = Undefined
  /\ ls.identity.fileName # Undefined

\* C25: stat of a File known by name asks b2_list_file_names for one file
\* from that name on and returns the record only if it bears that name; if
\* the bucket has no such file stat throws FileNotFound and the File keeps
\* the identity it was constructed with.  A File with a fileId asks
\* b2_get_file_info for that id.
C25_StatByName ==
  /\ KnownByName =>
        /\ \A i \in DOMAIN ls.statRequests :
              ls.statRequests[i] = [op |-> "b2_list_file_names",
                                    startFileName |-> ls.identity.fileName,
                                    maxFileCount |-> 1]
        /\ ls.statPc = "returned" =>
              /\ ls.identity.fileName \in ls.files
              /\ ls.fileData = FileRecord(ls.identity.fileName)
        /\ ls.statPc = "thrown" =>
              /\ ls.fileData = ls.identity
              /\ ls.statError \in {"FileNotFound", "ApiError"}
              /\ ls.statError = "FileNotFound" => ls.identity.fileName \notin ls.files
  /\ ls.identity.fileId # Undefined =>
        \A i \in DOMAIN ls.statRequests :
          ls.statRequests[i] = [op |-> "b2_get_file_info", fileId |-> ls.identity.fileId]

\* The name is missing and the list answered the next file: FileNotFound
C25_Witness ==
  /\ KnownByName
  /\ ls.statPc = "thrown"
  /\ ls.statError = "FileNotFound"
  /\ \E n \in ls.files : n > ls.identity.fileName
  /\ ls.fileData = ls.identity

\* C26: an iteration of Bucket.files asks for each batch after the first
\* from the nextFileName of the batch before, yields no file twice, asks
\* for no more batches than the bucket has files (and one), and when it is
\* done it has yielded every file of the bucket.
C26_FilesPagination ==
  /\ \A k \in 2..Len(ls.batches) :
        ls.batches[k].request.startFileName = ls.batches[k - 1].nextFileName
  /\ \A i, j \in DOMAIN ls.yielded : i # j => ls.yielded[i] # ls.yielded[j]
  /\ Len(ls.batches) <= Cardinality(ls.files) + 1
  /\ (ls.iterPc = "done" /\ ls.opts.startFileName = Undefined) =>
        {ls.yielded[i] : i \in DOMAIN ls.yielded} = ls.files

\* The bytes of a sequence of chunks
RECURSIVE Flatten(_)
Flatten(chunks) ==
  IF chunks = <<>> THEN <<>> ELSE Head(chunks) \o Flatten(Tail(chunks))

\* C31: an AppendHashStream emits the bytes it has read, unchanged and in
\* order, and once its source has ended one trailer of 40 hex characters,
\* the SHA-1 of the input bytes alone; it has then emitted the input length
\* plus 40 bytes, and every later digest() returns the digest of the trailer.
C31_AppendHashTrailer ==
  /\ Flatten(hs.chunks) = SubSeq(hs.input, 1, hs.read)
  /\ hs.pc = "open" => hs.emitted = EmitChunk(Flatten(hs.chunks))
  /\ hs.pc = "flushed" =>
        /\ hs.emitted = EmitChunk(hs.input) \o EmitHex(Sha1(hs.input))
        /\ Len(hs.emitted) = Len(hs.input) + 40
        /\ hs.digest = Sha1(hs.input)
        /\ \A i \in DOMAIN hs.returned : hs.returned[i] = Sha1(hs.input)

\* Several chunks, the trailer, and digest() called again
C31_Witness ==
  /\ hs.pc = "flushed"
  /\ Len(hs.chunks) >= 2
  /\ Len(hs.returned) >= 1
  /\ hs.emitted[Len(hs.input) + 1] = [hex |-> Sha1(hs.input), at |-> 1]

\* The part size the upload stream itself uses
P == StreamPartSize(auth, userSetPartSize)

\* Part i is the one _finishMultipart sealed at the end of the input
IsFinalPart(i) == ws.up.final /\ ws.up.partNumber = i

\* C32: the pending part never holds more than P bytes; every part sealed
\* before the end of the input has exactly P bytes and the final part has
\* between 1 and P; the parts of a finished upload, in the order of their
\* numbers, make up the input; an input of exactly P bytes seals no part and
\* is uploaded as a single part.
C32_SplitIntoParts ==
  /\ ws.pendingPart.bytes <= P
  /\ \A i \in 1..K :
       IF IsFinalPart(i)
       THEN Len(hist.sealed[i].bytes) \in 1..P
       ELSE Len(hist.sealed[i].bytes) = P
  /\ (ws.pc = "finished" /\ K > 0) => SealedBytes(K) = input
  /\ Len(input) = P =>
        /\ K = 0
        /\ ws.pc = "finished" => (hist.singlePost >= 1 /\ hist.partPost = 0)

\* A stream finished in several parts, the final one shorter than P
C32_Witness ==
  /\ entry = "stream"
  /\ ws.pc = "finished"
  /\ K >= 2
  /\ IsFinalPart(K)
  /\ Len(hist.sealed[K].bytes) < P

\* The parts whose upload has been started and has not ended
InFlight ==
  {i \in DOMAIN ws.uploadDigestPromises : ws.uploadDigestPromises[i].state = "pending"}

\* Every part sealed so far has been answered 200
AllPartsUploaded ==
  /\ \A i \in DOMAIN ws.uploadDigestPromises :
       ws.uploadDigestPromises[i].state = "fulfilled"
  /\ hist.accepted = 1..K

\* C33: at most one part upload is in flight, that of the part sealed last;
\* the stream is open for a write (the callback of the chunk before has been
\* invoked) only when every sealed part has been answered 200; input is
\* taken only in such a state, and a further part is sealed only once every
\* part before it has been answered 200, hence never while a part upload is
\* pending nor after one has failed.
C33_SingleLane ==
  /\ [](/\ Cardinality(InFlight) <= 1
        /\ InFlight \subseteq {K}
        /\ InFlight # {} => ws.pc \in {"stat", "startLarge", "getUrl", "post", "partTimer"}
        /\ ws.pc = "open" => AllPartsUploaded
        /\ (\E i \in DOMAIN ws.uploadDigestPromises :
              ws.uploadDigestPromises[i].state = "rejected") => ws.pc = "errored")
  /\ [][/\ written' # written => (InFlight = {} /\ ws.pc \in {"idle", "open"})
        /\ Len(hist'.sealed) > Len(hist.sealed) =>
             /\ Len(hist'.sealed) = Len(hist.sealed) + 1
             /\ hist'.accepted = 1..Len(hist.sealed)
             /\ ws.pc # "errored"]_vars

\* A part is being posted while the rest of the chunk and further input wait
C33_Witness ==
  /\ entry = "stream"
  /\ ws.pc = "post"
  /\ InFlight = {K}
  /\ ws.up.rest # <<>>
  /\ written < Len(input)

\* The upload URL of the POST that was answered 200 for part i
AcceptedUrl(i) == hist.acceptedUrls[i]

\* C34: the upload URL of the POST answered 200 goes to uploadUrls, which
\* never holds more than one, and the first POST of the next part is sent
\* to it; an upload whose part POSTs were all answered 200 has called
\* b2_get_upload_part_url once.
C34_PartLeaseReused ==
  /\ Len(ws.uploadUrls) <= 1
  /\ Len(hist.acceptedUrls) = Cardinality(hist.accepted)
  /\ (ws.pc \in {"open", "finish", "finished"} /\ K > 0) =>
        ws.uploadUrls = <<AcceptedUrl(K)>>
  /\ (ws.pc = "post" /\ ws.up.retryN = 0 /\ ws.up.partNumber >= 2) =>
        ws.up.uploadUrl = AcceptedUrl(ws.up.partNumber - 1)
  /\ (K > 0 /\ hist.partPost = Len(hist.acceptedUrls)) => hist.getPartUrl <= 1
  /\ (ws.pc = "finished" /\ K > 0 /\ hist.partPost = K) => hist.getPartUrl = 1

\* The next part starts on the URL that replaced one the server refused
C34_Witness ==
  /\ ws.pc = "post"
  /\ ws.up.retryN = 0
  /\ ws.up.partNumber >= 2
  /\ hist.droppedUrls # {}
  /\ ws.up.uploadUrl = AcceptedUrl(ws.up.partNumber - 1)
  /\ ws.up.uploadUrl \notin hist.droppedUrls

\* C35: a stream that ends without having sealed a part posts its bytes
\* as a single part with Content-Length equal to their number and
\* X-Bz-Content-Sha1 equal to their SHA-1 digest.
C35_StreamSinglePartDigest ==
  entry = "stream" =>
    \A i \in DOMAIN hist.singleHeaders :
      /\ hist.singleHeaders[i].sha1 = Sha1(input)
      /\ hist.singleHeaders[i].contentLength = Len(input)

\* C36: an upload fails with the transport error of a POST only when the
\* retries of that part upload, or of that single-part upload, are used up.
C36_TransportErrorsRetried ==
  (ws.pc = "errored" /\ ws.error = "FetchError") =>
     IF K > 0 THEN ws.up.retryN >= ws.up.maxRetries
     ELSE sp.retries >= SingleMaxRetries(sp)

\* C37: a call of B2.request that meets no transport error sends at most
\* maxRetries + 1 requests and calls authorize at most maxRetries times,
\* whatever mix of expired tokens, 408 and 503 it is answered; every request
\* after the first has raised the retry counter by one, which no
\* re-authorization resets, and the answer to request maxRetries + 1 ends
\* the call.
C37_MixedFailuresBudget ==
  /\ [](rqSeen["transport"] = 0 =>
          /\ rqSent <= rqOptions.maxRetries + 1
          /\ rqAuthCalls <= rqOptions.maxRetries
          /\ rqPc = "fetch" => rqRetries = rqSent
          /\ rqPc \in {"timer", "authorize"} =>
                (rqRetries = rqSent - 1 /\ rqRetries < rqOptions.maxRetries)
          /\ rqSent = rqOptions.maxRetries + 1 => rqPc \in {"returned", "thrown"})
  /\ [][rqPc # "idle" => rqRetries' >= rqRetries]_vars

\* An expired token, a 408 and a 503 used up a budget of two retries
C37_Witness ==
  /\ rqSeen["transport"] = 0
  /\ rqSeen["expired"] >= 1
  /\ rqSeen["s408"] >= 1
  /\ rqSeen["s503"] >= 1
  /\ rqPc = "thrown"
  /\ rqSent = rqOptions.maxRetries + 1

\* The retry budget the caller of the upload asked for
UploadBudget ==
  IF options.maxRetries = Undefined THEN DefaultMaxRetries ELSE options.maxRetries

OnlyExpiredAnswers ==
  \A i \in 1..Len(hist.singleAnswers) : hist.singleAnswers[i] = 401

\* C38: while every POST of one Bucket.uploadSinglePart call is answered 401
\* with an expired upload token, the call makes at most maxRetries + 1 POSTs
\* and asks for at most maxRetries + 1 upload URLs.
C38_ExpiredLeasesBounded ==
  OnlyExpiredAnswers =>
     /\ hist.singlePost <= UploadBudget + 1
     /\ hist.getUploadUrl <= UploadBudget + 1

\* C39: every part upload of a stream created with options.maxRetries = n
\* runs with maxRetries = n, n = 0 included, and with n = 0 a part is never
\* posted a second time.
C39_PartRetryTuning ==
  (entry = "stream" /\ ws.up.partNumber >= 1 /\ options.maxRetries # Undefined) =>
     /\ ws.up.maxRetries = options.maxRetries
     /\ options.maxRetries = 0 => ws.up.retryN = 0

====
